---------------------------- MODULE Spec2Model ----------------------------
(***************************************************************************)
(* A model of the OpenClaw observatory collector                           *)
(* (tools/openclaw-observatory/collector.mjs), of the payload cache of its *)
(* server (createCollectorCache) and of limitHistoryTurns.                 *)
(*                                                                         *)
(* Three specifications share the definitions of this module:              *)
(*   Spec        parseSessionFile read line by line (the session parser);  *)
(*   SpecScan    collectSessionsFromState, one transcript file per step;   *)
(*   SpecCollect successive collectOpenClawMetrics calls under a clock.    *)
(* Further specifications apply one pure function of the collector to      *)
(* arguments drawn from bounded sets; each is introduced where it is used. *)
(* SpecCache interleaves overlapping get calls of the server's cache.      *)
(*                                                                         *)
(* Conventions.  An optional number (a JavaScript number | undefined) is a *)
(* sequence of length 0 or 1.  A raw JSON field is a tagged record, so     *)
(* that typeof/Number.isFinite tests are modelled by what they do.  Costs  *)
(* are integers (a fixed fraction of a currency unit).  Timestamps are     *)
(* milliseconds.  A calendar-day key is the UTC day number ms \div DAY_MS; *)
(* the source's "YYYY-MM-DD" strings order the same way.  Provider and     *)
(* model names hold no "::" separator.                                     *)
(***************************************************************************)
EXTENDS Integers, Sequences, FiniteSets, TLC

VARIABLES
    params,     \* parseSessionFile: params (file, range, timelineLimit)
    consumed,   \* parseSessionFile: the lines of the stream read so far
    acc,        \* parseSessionFile: the running accumulators
    cur,        \* parseSessionFile: the locals of the last loop iteration
    ppc,        \* parseSessionFile: "reading" | "done"
    summary,    \* parseSessionFile: the returned session summary
    files,      \* the transcript files under <stateDir>/agents
    spc,        \* collectSessionsFromState: "scan" | "done"
    sidx,       \* collectSessionsFromState: index of the next file
    sessions,   \* collectSessionsFromState: the sessions array
    clock,      \* the wall clock, Date.now()
    last,       \* the last collectOpenClawMetrics call: options and payload
    fnArgs,     \* a pure function applied on its own: its arguments
    fnResult,   \* a pure function applied on its own: what it returned
    cache,      \* createCollectorCache: the Map of stored payloads
    inflight,   \* createCollectorCache: the get calls awaiting their collection
    reply       \* createCollectorCache: what the last get call did

vars == <<params, consumed, acc, cur, ppc, summary, files, spc, sidx, sessions, clock, last,
          fnArgs, fnResult, cache, inflight, reply>>
parseVars == <<params, consumed, acc, cur, ppc, summary>>
scanVars == <<files, spc, sidx, sessions>>
collectVars == <<clock, last>>
pureVars == <<fnArgs, fnResult>>
serverVars == <<cache, inflight, reply>>

---------------------------------------------------------------------------
(* Program constants *)

DAY_MS == 86400000

STOP_REASON_ERRORS == {"error", "aborted", "cancelled", "timeout"}

ROLES == {"user", "assistant", "tool", "toolResult"}

PREVIEW_MAX == 8

---------------------------------------------------------------------------
(* Raw JSON values *)

\* a JSON number n
Num(n) == [k |-> "num", v |-> n]
\* a missing field
NoVal == [k |-> "absent", v |-> 0]
\* a field that is no finite number: a string, null, NaN, an object
Junk == [k |-> "junk", v |-> 0]

\* a JSON string s
Str(s) == [k |-> "str", s |-> s]
NoStr == [k |-> "absent", s |-> ""]
JunkStr == [k |-> "junk", s |-> ""]

\* optional values
None == <<>>
Some(x) == <<x>>
IsSome(o) == o # <<>>
Val(o) == o[1]
\* a ?? b
Coalesce(a, b) == IF IsSome(a) THEN a ELSE b

\* the element of a one-element set.  Only({F(x) : x \in {e}}) is F(e) with e
\* evaluated once and named x.
Only(S) == CHOOSE x \in S : TRUE

Max(a, b) == IF a >= b THEN a ELSE b
Min(a, b) == IF a <= b THEN a ELSE b

toFinite(x) == IF x.k = "num" THEN Some(x.v) ELSE None

\* typeof x === "string" ? x : undefined
asString(x) == IF x.k = "str" THEN Some(x.s) ELSE None

\* a string lowered; the model's mixed-case strings are listed here
toLowerCase(s) ==
    CASE s = "ERROR" -> "error"
      [] s = "Timeout" -> "timeout"
      [] s = "Aborted" -> "aborted"
      [] s = "MD" -> "md"
      [] OTHER -> s


---------------------------------------------------------------------------
(* Insertion-ordered maps (JavaScript Map): a sequence of entries, each a  *)
(* record with a key field                                                 *)

MapIndex(m, key) ==
    IF \E i \in 1..Len(m) : m[i].key = key
    THEN CHOOSE i \in 1..Len(m) : m[i].key = key
    ELSE 0

MapHas(m, key) == MapIndex(m, key) # 0

MapGet(m, key) == m[MapIndex(m, key)]

\* map.set(key, entry): replaces in place, or appends a new key
MapSet(m, entry) ==
    IF MapHas(m, entry.key)
    THEN [m EXCEPT ![MapIndex(m, entry.key)] = entry]
    ELSE Append(m, entry)

RECURSIVE SumSeq(_)
SumSeq(s) == IF s = <<>> THEN 0 ELSE s[1] + SumSeq(Tail(s))

\* Array.prototype.sort(cmp): a stable sort.  before[i][j] says that
\* cmp(s[i], s[j]) < 0; the elements are inserted one by one, each before the
\* first element it precedes.
InsertSorted(t, x, before) ==
    LET later == {j \in 1..Len(t) : before[x][t[j]]}
        p == IF later = {} THEN Len(t) + 1
             ELSE CHOOSE j \in later : \A i \in later : j <= i
    IN SubSeq(t, 1, p - 1) \o <<x>> \o SubSeq(t, p, Len(t))

StableSort(s, before) ==
    LET perm[i \in 0..Len(s)] ==
            IF i = 0 THEN <<>> ELSE InsertSorted(perm[i - 1], i, before)
    IN [k \in 1..Len(s) |-> s[perm[Len(s)][k]]]

---------------------------------------------------------------------------
(* Record Normalizer *)

\* parseTimestampMs(entry, message)
IsoTs(t) == [k |-> "iso", v |-> t]

parseTimestampMs(line) ==
    IF line.entryTs.k = "iso" THEN Some(line.entryTs.v)
    ELSE toFinite(line.msgTs)

dayKeyFromMs(ms) == ms \div DAY_MS

\* the raw usage object with every accepted field missing
NoCostObj ==
    [k |-> "absent", total |-> NoVal, input |-> NoVal, output |-> NoVal,
     cacheRead |-> NoVal, cacheWrite |-> NoVal]

NoUsage ==
    [k |-> "absent",
     input |-> NoVal, inputTokens |-> NoVal, prompt_tokens |-> NoVal, promptTokens |-> NoVal,
     output |-> NoVal, outputTokens |-> NoVal, completion_tokens |-> NoVal,
     completionTokens |-> NoVal,
     cacheRead |-> NoVal, cache_read_input_tokens |-> NoVal, cacheReadInputTokens |-> NoVal,
     cacheWrite |-> NoVal, cache_creation_input_tokens |-> NoVal,
     cacheWriteInputTokens |-> NoVal,
     total |-> NoVal, totalTokens |-> NoVal, total_tokens |-> NoVal,
     cost |-> NoCostObj]

UsageObj == [NoUsage EXCEPT !.k = "obj"]
JunkUsage == [NoUsage EXCEPT !.k = "junk"]

\* asRecord(value) !== undefined
asRecord(raw) == raw.k = "obj"

\* the four categories before clamping, and the resolved total
usageInput(r) ==
    Coalesce(toFinite(r.input), Coalesce(toFinite(r.inputTokens),
    Coalesce(toFinite(r.prompt_tokens), Coalesce(toFinite(r.promptTokens), Some(0)))))
usageOutput(r) ==
    Coalesce(toFinite(r.output), Coalesce(toFinite(r.outputTokens),
    Coalesce(toFinite(r.completion_tokens), Coalesce(toFinite(r.completionTokens), Some(0)))))
usageCacheRead(r) ==
    Coalesce(toFinite(r.cacheRead), Coalesce(toFinite(r.cache_read_input_tokens),
    Coalesce(toFinite(r.cacheReadInputTokens), Some(0))))
usageCacheWrite(r) ==
    Coalesce(toFinite(r.cacheWrite), Coalesce(toFinite(r.cache_creation_input_tokens),
    Coalesce(toFinite(r.cacheWriteInputTokens), Some(0))))

usageTotal(r, input, output, cacheRead, cacheWrite) ==
    Val(Coalesce(toFinite(r.total), Coalesce(toFinite(r.totalTokens),
        Coalesce(toFinite(r.total_tokens), Some(input + output + cacheRead + cacheWrite)))))

\* normalizeUsage(raw): None, or Some usage tuple
normalizeUsage(raw) ==
    IF ~asRecord(raw) THEN None
    ELSE LET input == Val(usageInput(raw))
             output == Val(usageOutput(raw))
             cacheRead == Val(usageCacheRead(raw))
             cacheWrite == Val(usageCacheWrite(raw))
             total == usageTotal(raw, input, output, cacheRead, cacheWrite)
         IN IF total <= 0 /\ input <= 0 /\ output <= 0 /\ cacheRead <= 0 /\ cacheWrite <= 0
            THEN None
            ELSE Some([input |-> Max(0, input), output |-> Max(0, output),
                       cacheRead |-> Max(0, cacheRead), cacheWrite |-> Max(0, cacheWrite),
                       total |-> Max(0, total)])

\* extractCostBreakdown(usageRaw): None, or Some breakdown whose category
\* costs are optional numbers
extractCostBreakdown(usageRaw) ==
    IF ~asRecord(usageRaw) \/ ~asRecord(usageRaw.cost) THEN None
    ELSE LET total == toFinite(usageRaw.cost.total)
         IN IF ~IsSome(total) \/ Val(total) < 0 THEN None
            ELSE Some([total |-> Val(total),
                       input |-> toFinite(usageRaw.cost.input),
                       output |-> toFinite(usageRaw.cost.output),
                       cacheRead |-> toFinite(usageRaw.cost.cacheRead),
                       cacheWrite |-> toFinite(usageRaw.cost.cacheWrite)])

---------------------------------------------------------------------------
(* Text.  A free text or a tool name is a sequence of one-character        *)
(* strings; Txt gives the raw JSON string holding it.                      *)

Txt(chars) == [k |-> "str", s |-> chars]
NoTxt == [k |-> "absent", s |-> <<>>]

RECURSIVE trimStart(_)
trimStart(cs) == IF cs # <<>> /\ cs[1] = " " THEN trimStart(Tail(cs)) ELSE cs

RECURSIVE trimEnd(_)
trimEnd(cs) ==
    IF cs # <<>> /\ cs[Len(cs)] = " " THEN trimEnd(SubSeq(cs, 1, Len(cs) - 1)) ELSE cs

\* String.prototype.trim
trim(cs) == trimEnd(trimStart(cs))

\* chunks.join(" ")
RECURSIVE join(_)
join(chunks) ==
    IF chunks = <<>> THEN <<>>
    ELSE IF Len(chunks) = 1 THEN chunks[1]
    ELSE chunks[1] \o <<" ">> \o join(Tail(chunks))

\* a content block; a part that is a bare string has type "string"
Block(type) == [type |-> type, name |-> NoTxt, is_error |-> FALSE, text |-> NoTxt]

NoContent == [k |-> "absent", text |-> <<>>, blocks |-> <<>>]
StringContent(chars) == [k |-> "string", text |-> chars, blocks |-> <<>>]
ArrayContent(blocks) == [k |-> "array", text |-> <<>>, blocks |-> blocks]

\* extractToolDetails(message)
RECURSIVE toolUseNames(_)
toolUseNames(blocks) ==
    IF blocks = <<>> THEN <<>>
    ELSE LET b == blocks[1]
             name == IF b.name.k = "str" THEN trim(b.name.s) ELSE <<>>
         IN (IF b.type = "tool_use" /\ name # <<>> THEN <<name>> ELSE <<>>)
            \o toolUseNames(Tail(blocks))

extractToolDetails(line) ==
    LET blocks == IF line.content.k = "array" THEN line.content.blocks ELSE <<>>
        results == SelectSeq(blocks, LAMBDA b : b.type = "tool_result")
        roleName == IF line.toolName.k = "str" THEN line.toolName.s
                    ELSE IF line.name.k = "str" THEN line.name.s
                    ELSE <<"t", "o", "o", "l">>
    IN [names |-> toolUseNames(blocks)
                  \o (IF line.role = Str("tool") THEN <<roleName>> ELSE <<>>),
        results |-> Len(results) + (IF line.role = Str("toolResult") THEN 1 ELSE 0),
        errors |-> Len(SelectSeq(results, LAMBDA b : b.is_error))]

\* extractText(content)
RECURSIVE textChunks(_)
textChunks(blocks) ==
    IF blocks = <<>> THEN <<>>
    ELSE LET b == blocks[1]
             chunk ==
                 CASE b.type = "string" /\ b.text.k = "str" ->
                        IF trim(b.text.s) # <<>> THEN <<trim(b.text.s)>> ELSE <<>>
                   [] b.type = "text" /\ b.text.k = "str" ->
                        IF trim(b.text.s) # <<>> THEN <<trim(b.text.s)>> ELSE <<>>
                   [] b.type = "tool_use" ->
                        << <<"[", "t", "o", "o", "l", ":">>
                           \o (IF b.name.k = "str" THEN b.name.s ELSE <<"t", "o", "o", "l">>)
                           \o <<"]">> >>
                   [] b.type = "tool_result" ->
                        << <<"[", "t", "o", "o", "l", "_", "r", "e", "s", "u", "l", "t", "]">> >>
                   [] OTHER -> <<>>
         IN chunk \o textChunks(Tail(blocks))

extractText(content) ==
    CASE content.k = "string" -> trim(content.text)
      [] content.k = "array" -> trim(join(textChunks(content.blocks)))
      [] OTHER -> <<>>

\* trimSnippet(value, max)
trimSnippet(value, max) ==
    IF value = <<>> THEN <<>>
    ELSE IF Len(value) <= max THEN value
    ELSE SubSeq(value, 1, max - 1) \o <<"...">>

SNIPPET_MAX == 180
TIMELINE_TEXT_MAX == 140

---------------------------------------------------------------------------
(* Totals and latency statistics *)

createTotals ==
    [input |-> 0, output |-> 0, cacheRead |-> 0, cacheWrite |-> 0, totalTokens |-> 0,
     totalCost |-> 0, inputCost |-> 0, outputCost |-> 0, cacheReadCost |-> 0,
     cacheWriteCost |-> 0, missingCostEntries |-> 0]

mergeTotals(target, source) ==
    [input |-> target.input + source.input,
     output |-> target.output + source.output,
     cacheRead |-> target.cacheRead + source.cacheRead,
     cacheWrite |-> target.cacheWrite + source.cacheWrite,
     totalTokens |-> target.totalTokens + source.totalTokens,
     totalCost |-> target.totalCost + source.totalCost,
     inputCost |-> target.inputCost + source.inputCost,
     outputCost |-> target.outputCost + source.outputCost,
     cacheReadCost |-> target.cacheReadCost + source.cacheReadCost,
     cacheWriteCost |-> target.cacheWriteCost + source.cacheWriteCost,
     missingCostEntries |-> target.missingCostEntries + source.missingCostEntries]

applyUsageTotals(totals, usage) ==
    [totals EXCEPT !.input = @ + usage.input,
                   !.output = @ + usage.output,
                   !.cacheRead = @ + usage.cacheRead,
                   !.cacheWrite = @ + usage.cacheWrite,
                   !.totalTokens = @ + usage.total]

OrZero(o) == IF IsSome(o) THEN Val(o) ELSE 0

applyCostBreakdown(totals, breakdown) ==
    [totals EXCEPT !.totalCost = @ + breakdown.total,
                   !.inputCost = @ + OrZero(breakdown.input),
                   !.outputCost = @ + OrZero(breakdown.output),
                   !.cacheReadCost = @ + OrZero(breakdown.cacheRead),
                   !.cacheWriteCost = @ + OrZero(breakdown.cacheWrite)]

\* a mutant of applyCostTotal: the sign of the flat total is not tested
applyCostTotalUnchecked(totals, total) ==
    IF IsSome(total)
    THEN [totals EXCEPT !.totalCost = @ + Val(total)]
    ELSE [totals EXCEPT !.missingCostEntries = @ + 1]

\* applyCostTotal(totals, total): total is an optional number
applyCostTotal(totals, total) ==
    IF IsSome(total) /\ Val(total) >= 0
    THEN [totals EXCEPT !.totalCost = @ + Val(total)]
    ELSE [totals EXCEPT !.missingCostEntries = @ + 1]

\* a mutant of p95IndexOf: the rank ceil(0.95 n), counted from 1
p95IndexNearestRank(count) == (count * 95 + 99) \div 100 - 1

\* Math.min(sorted.length - 1, Math.floor(sorted.length * 0.95))
p95IndexOf(count) == Min(count - 1, (count * 95) \div 100)

\* computeLatencyStats(values): None when there is no sample; avgMs is the
\* exact quotient sumMs / count, kept as its numerator and denominator
computeLatencyStats(values) ==
    IF values = <<>> THEN None
    ELSE LET sorted == StableSort(values, [i \in 1..Len(values) |->
                                                   [j \in 1..Len(values) |-> values[i] - values[j] < 0]])
             count == Len(sorted)
             p95Index == p95IndexOf(count)
         IN Some([count |-> count,
                  avgMs |-> [num |-> SumSeq(sorted), den |-> count],
                  p95Ms |-> sorted[p95Index + 1],
                  minMs |-> sorted[1],
                  maxMs |-> sorted[count]])

\* a mutant of sortByCostThenTokens: equal costs are left in place
sortByCostOnly(a, b) == b.totals.totalCost - a.totals.totalCost < 0

\* sortByCostThenTokens(a, b) < 0
sortByCostThenTokens(a, b) ==
    LET cost == b.totals.totalCost - a.totals.totalCost
    IN IF cost # 0 THEN cost < 0
       ELSE b.totals.totalTokens - a.totals.totalTokens < 0

---------------------------------------------------------------------------
(* Session Parser: one decoded line, the accumulators, the loop body *)

\* a line that decodes to an object with every field missing
BaseLine ==
    [kind |-> "object", entryTs |-> NoVal, msgTs |-> NoVal, role |-> NoStr,
     msgProvider |-> NoStr, recProvider |-> NoStr, msgModel |-> NoStr, recModel |-> NoStr,
     msgUsage |-> NoUsage, recUsage |-> NoUsage,
     recCostTotal |-> NoVal, msgCostTotal |-> NoVal,
     recCostObjTotal |-> NoVal, msgCostObjTotal |-> NoVal,
     recDurationMs |-> NoVal, msgDurationMs |-> NoVal,
     msgStopReason |-> NoStr, recStopReason |-> NoStr,
     content |-> NoContent, toolName |-> NoTxt, name |-> NoTxt]

\* a blank line, a line JSON.parse rejects, a line that decodes to no object
BlankLine == [BaseLine EXCEPT !.kind = "blank"]
GarbageLine == [BaseLine EXCEPT !.kind = "garbage"]
NonObjectLine == [BaseLine EXCEPT !.kind = "nonobject"]

\* the accumulators parseSessionFile declares before its loop
createAcc ==
    [totals |-> createTotals,
     messageCounts |-> [total |-> 0, user |-> 0, assistant |-> 0, toolCalls |-> 0,
                        toolResults |-> 0, errors |-> 0],
     toolMap |-> <<>>, modelMap |-> <<>>, dailyMap |-> <<>>, dailyLatencies |-> <<>>,
     latencyValues |-> <<>>, preview |-> <<>>, timeline |-> <<>>, waterfall |-> <<>>,
     activityDates |-> {},
     firstActivity |-> None, lastActivity |-> None, lastUserTs |-> None,
     previousAssistantModelKey |-> None, modelSwitches |-> 0]

\* the locals of an iteration that read no record
NoLocals ==
    [inRange |-> FALSE, timestampMs |-> None, role |-> None, usage |-> None,
     provider |-> None, model |-> None, entryCostTotal |-> None, durationMs |-> None,
     entryIsError |-> FALSE]

OrUnknown(o) == IF IsSome(o) THEN Val(o) ELSE "unknown"

\* `${provider ?? "unknown"}::${model ?? "unknown"}`
modelKeyOf(provider, model) == <<OrUnknown(provider), OrUnknown(model)>>
UNKNOWN_KEY == <<"unknown", "unknown">>

\* a mutant of inRangeOf: a range with no finite start admits no dated record
inRangeOfFiniteStart(timestampMs, rng) ==
    \/ ~IsSome(timestampMs)
    \/ /\ IsSome(rng.startMs) /\ Val(timestampMs) >= Val(rng.startMs)
       /\ Val(timestampMs) <= rng.endMs

\* timestampMs === undefined || (startMs <= timestampMs <= endMs);
\* a startMs of None is Number.NEGATIVE_INFINITY
inRangeOf(timestampMs, rng) ==
    \/ ~IsSome(timestampMs)
    \/ /\ (~IsSome(rng.startMs) \/ Val(timestampMs) >= Val(rng.startMs))
       /\ Val(timestampMs) <= rng.endMs

RECURSIVE countTools(_, _)
countTools(toolMap, names) ==
    IF names = <<>> THEN toolMap
    ELSE LET old == IF MapHas(toolMap, names[1]) THEN MapGet(toolMap, names[1]).count ELSE 0
         IN countTools(MapSet(toolMap, [key |-> names[1], count |-> old + 1]), Tail(names))

\* a mutant of nextPreviousKey: an assistant turn of unknown identity resets
\* the comparison
nextPreviousKeyReset(role, previousKey, assistantModelKey) ==
    IF role = Some("assistant")
    THEN (IF assistantModelKey # UNKNOWN_KEY THEN Some(assistantModelKey) ELSE None)
    ELSE previousKey

\* the model-switch test of lines 584-591
switchedOf(role, previousKey, assistantModelKey) ==
    /\ role = Some("assistant")
    /\ IsSome(previousKey)
    /\ assistantModelKey # UNKNOWN_KEY
    /\ assistantModelKey # Val(previousKey)

\* previousAssistantModelKey after lines 592-594
nextPreviousKey(role, previousKey, assistantModelKey) ==
    IF role = Some("assistant") /\ assistantModelKey # UNKNOWN_KEY
    THEN Some(assistantModelKey) ELSE previousKey

\* rawCostTotal, the first finite flat alias (lines 552-556)
rawCostTotalOf(line) ==
    Coalesce(toFinite(line.recCostTotal), Coalesce(toFinite(line.msgCostTotal),
    Coalesce(toFinite(line.recCostObjTotal), toFinite(line.msgCostObjTotal))))

\* a mutant of spanStart: the span starts at the user turn
spanStartAtUser(lastUserTs, timestampMs) == lastUserTs

\* Math.min(lastUserTs, timestampMs)
spanStart(lastUserTs, timestampMs) == Min(lastUserTs, timestampMs)

\* a mutant of isErrorStop: the stop reason is compared as it is written
isErrorStopAsWritten(stopReason) ==
    IsSome(stopReason) /\ Val(stopReason) # "" /\ Val(stopReason) \in STOP_REASON_ERRORS

\* stopReason && STOP_REASON_ERRORS.has(stopReason.toLowerCase())
isErrorStop(stopReason) ==
    IsSome(stopReason) /\ Val(stopReason) # ""
        /\ toLowerCase(Val(stopReason)) \in STOP_REASON_ERRORS

\* the body of the for-await loop for a line that decodes to an object
\* (lines 431-645): the new accumulators and the iteration's locals
LoopBody(a, line, rng) ==
    LET role == IF line.role.k = "str" /\ line.role.s \in ROLES THEN Some(line.role.s) ELSE None
        timestampMs == parseTimestampMs(line)
        inRange == inRangeOf(timestampMs, rng)
        hasTs == IsSome(timestampMs)
        ts == IF hasTs THEN Val(timestampMs) ELSE 0
        dayKey == IF hasTs THEN Some(dayKeyFromMs(ts)) ELSE None
        bucket0 == IF hasTs /\ MapHas(a.dailyMap, Val(dayKey))
                   THEN MapGet(a.dailyMap, Val(dayKey))
                   ELSE [key |-> dayKeyFromMs(ts), date |-> dayKeyFromMs(ts), tokens |-> 0,
                         cost |-> 0, messages |-> 0, toolCalls |-> 0, errors |-> 0]
        isMsg == role = Some("user") \/ role = Some("assistant")
        lastUserTs == IF role = Some("user") /\ hasTs THEN timestampMs ELSE a.lastUserTs
        tools == extractToolDetails(line)
        stopReason == Coalesce(asString(line.msgStopReason), asString(line.recStopReason))
        stopIsError == isErrorStop(stopReason)
        usageRaw == IF line.msgUsage.k # "absent" THEN line.msgUsage ELSE line.recUsage
        usage == normalizeUsage(usageRaw)
        provider == Coalesce(asString(line.msgProvider), asString(line.recProvider))
        model == Coalesce(asString(line.msgModel), asString(line.recModel))
        assistantModelKey == modelKeyOf(provider, model)
        breakdown == extractCostBreakdown(usageRaw)
        rawCostTotal == rawCostTotalOf(line)
        entryCostTotal == IF ~IsSome(usage) THEN None
                          ELSE IF IsSome(breakdown) THEN Some(Val(breakdown).total)
                          ELSE rawCostTotal
        applyCost(t) == IF IsSome(breakdown) THEN applyCostBreakdown(t, Val(breakdown))
                        ELSE applyCostTotal(t, rawCostTotal)
        totals == IF IsSome(usage) THEN applyCost(applyUsageTotals(a.totals, Val(usage)))
                  ELSE a.totals
        modelBucket0 == IF MapHas(a.modelMap, assistantModelKey)
                        THEN MapGet(a.modelMap, assistantModelKey)
                        ELSE [key |-> assistantModelKey, provider |-> provider,
                              model |-> model, count |-> 0, totals |-> createTotals]
        modelMap == IF IsSome(usage)
                    THEN MapSet(a.modelMap,
                                [modelBucket0 EXCEPT
                                   !.count = @ + 1,
                                   !.totals = applyCost(applyUsageTotals(@, Val(usage)))])
                    ELSE a.modelMap
        explicitMs == Coalesce(toFinite(line.recDurationMs), toFinite(line.msgDurationMs))
        durationMs == IF ~IsSome(explicitMs) /\ role = Some("assistant") /\ hasTs
                         /\ IsSome(lastUserTs) /\ Val(lastUserTs) # 0
                      THEN Some(Max(0, ts - Val(lastUserTs)))
                      ELSE explicitMs
        sampled == role = Some("assistant") /\ IsSome(durationMs)
        dayLat0 == IF hasTs /\ MapHas(a.dailyLatencies, Val(dayKey))
                   THEN MapGet(a.dailyLatencies, Val(dayKey)).values ELSE <<>>
        switched == switchedOf(role, a.previousAssistantModelKey, assistantModelKey)
        entryIsError == tools.errors > 0 \/ stopIsError
        bucket == [bucket0 EXCEPT
                     !.messages = @ + (IF isMsg THEN 1 ELSE 0),
                     !.toolCalls = @ + Len(tools.names),
                     !.errors = @ + (IF tools.results > 0 THEN tools.errors ELSE 0)
                                  + (IF stopIsError THEN 1 ELSE 0),
                     !.tokens = @ + (IF IsSome(usage) THEN Val(usage).total ELSE 0),
                     !.cost = @ + (IF ~IsSome(usage) THEN 0
                                   ELSE IF IsSome(breakdown) THEN Val(breakdown).total
                                   ELSE OrZero(rawCostTotal))]
        text == extractText(line.content)
        event == [timestamp |-> ts, role |-> OrUnknown(role), provider |-> provider,
                  model |-> model,
                  tokens |-> IF IsSome(usage) THEN Val(usage).total ELSE 0,
                  inputTokens |-> IF IsSome(usage) THEN Val(usage).input ELSE 0,
                  outputTokens |-> IF IsSome(usage) THEN Val(usage).output ELSE 0,
                  cost |-> entryCostTotal, durationMs |-> durationMs,
                  toolCalls |-> Len(tools.names), toolResults |-> tools.results,
                  isError |-> entryIsError, stopReason |-> stopReason,
                  text |-> trimSnippet(text, TIMELINE_TEXT_MAX)]
        span == [startTs |-> spanStart(OrZero(lastUserTs), ts), endTs |-> ts,
                 latencyMs |-> Max(0, ts - OrZero(lastUserTs)),
                 provider |-> provider, model |-> model,
                 tokens |-> IF IsSome(usage) THEN Val(usage).total ELSE 0,
                 cost |-> entryCostTotal, error |-> entryIsError]
        snippet == trimSnippet(text, SNIPPET_MAX)
        preview1 == IF IsSome(role) /\ snippet # <<>>
                    THEN Append(a.preview,
                                [timestamp |-> timestampMs, role |-> Val(role), text |-> snippet])
                    ELSE a.preview
        next ==
            [totals |-> totals,
             messageCounts |->
                 [total |-> a.messageCounts.total + (IF isMsg THEN 1 ELSE 0),
                  user |-> a.messageCounts.user + (IF role = Some("user") THEN 1 ELSE 0),
                  assistant |-> a.messageCounts.assistant
                                + (IF role = Some("assistant") THEN 1 ELSE 0),
                  toolCalls |-> a.messageCounts.toolCalls + Len(tools.names),
                  toolResults |-> a.messageCounts.toolResults + tools.results,
                  errors |-> a.messageCounts.errors
                             + (IF tools.results > 0 THEN tools.errors ELSE 0)
                             + (IF stopIsError THEN 1 ELSE 0)],
             toolMap |-> countTools(a.toolMap, tools.names),
             modelMap |-> modelMap,
             dailyMap |-> IF hasTs THEN MapSet(a.dailyMap, bucket) ELSE a.dailyMap,
             dailyLatencies |->
                 IF sampled /\ hasTs
                 THEN MapSet(a.dailyLatencies,
                             [key |-> Val(dayKey), values |-> Append(dayLat0, Val(durationMs))])
                 ELSE a.dailyLatencies,
             latencyValues |-> IF sampled THEN Append(a.latencyValues, Val(durationMs))
                               ELSE a.latencyValues,
             preview |-> IF Len(preview1) > PREVIEW_MAX THEN Tail(preview1) ELSE preview1,
             timeline |-> IF hasTs /\ IsSome(role) THEN Append(a.timeline, event)
                          ELSE a.timeline,
             waterfall |-> IF role = Some("assistant") /\ hasTs /\ IsSome(lastUserTs)
                           THEN Append(a.waterfall, span) ELSE a.waterfall,
             activityDates |-> IF hasTs THEN a.activityDates \cup {Val(dayKey)}
                               ELSE a.activityDates,
             firstActivity |-> IF ~hasTs THEN a.firstActivity
                               ELSE IF IsSome(a.firstActivity)
                                    THEN Some(Min(Val(a.firstActivity), ts)) ELSE Some(ts),
             lastActivity |-> IF ~hasTs THEN a.lastActivity
                              ELSE IF IsSome(a.lastActivity)
                                   THEN Some(Max(Val(a.lastActivity), ts)) ELSE Some(ts),
             lastUserTs |-> lastUserTs,
             previousAssistantModelKey |->
                 nextPreviousKey(role, a.previousAssistantModelKey, assistantModelKey),
             modelSwitches |-> a.modelSwitches + (IF switched THEN 1 ELSE 0)]
        loc == [inRange |-> inRange, timestampMs |-> timestampMs, role |-> role,
                usage |-> IF inRange THEN usage ELSE None,
                provider |-> IF inRange THEN provider ELSE None,
                model |-> IF inRange THEN model ELSE None,
                entryCostTotal |-> IF inRange THEN entryCostTotal ELSE None,
                durationMs |-> IF inRange THEN durationMs ELSE None,
                entryIsError |-> inRange /\ entryIsError]
    IN IF inRange THEN [acc |-> next, loc |-> loc] ELSE [acc |-> a, loc |-> loc]

\* a mutant of ReadLine: the catch block counts the rejected line as an error
ReadLineCountingErrors(a, line, rng) ==
    IF line.kind = "object" THEN LoopBody(a, line, rng)
    ELSE IF line.kind = "garbage"
    THEN [acc |-> [a EXCEPT !.messageCounts.errors = @ + 1], loc |-> NoLocals]
    ELSE [acc |-> a, loc |-> NoLocals]

\* one iteration of the loop (lines 414-646): a blank line, a line that
\* JSON.parse rejects and a line that decodes to no object are skipped
ReadLine(a, line, rng) ==
    IF line.kind = "object" THEN LoopBody(a, line, rng)
    ELSE [acc |-> a, loc |-> NoLocals]

---------------------------------------------------------------------------
(* Session Parser: the summary built when the stream ends (lines 648-738) *)

\* a session-store entry: the fields of sessions.json the summary reads
NoEntry == [k |-> "absent", label |-> NoStr, channel |-> NoStr, originProvider |-> NoStr,
            updatedAt |-> NoVal]

\* fileName without ".jsonl", and the stem without its "-topic-..." suffix;
\* a file name is the pair of its session id and its topic ("" for none)
normalizeSessionIdFromFileName(fileName) ==
    [stem |-> fileName, sessionId |-> fileName.id]

\* the channel of a summary: entry.channel, else entry.origin.provider
channelOf(entry) ==
    IF entry.k # "obj" THEN None
    ELSE Coalesce(asString(entry.channel), asString(entry.originProvider))

\* a mutant of tailOf: the first limit entries are kept
headOf(sorted, limit) ==
    IF Len(sorted) > limit THEN SubSeq(sorted, 1, limit) ELSE sorted

\* sortedX.length > limit ? sortedX.slice(sortedX.length - limit) : sortedX
tailOf(sorted, limit) ==
    IF Len(sorted) > limit THEN SubSeq(sorted, Len(sorted) - limit + 1, Len(sorted))
    ELSE sorted

\* uniqueModelKeys.size
uniqueModelsOf(modelUsage) == Cardinality({modelUsage[i].key : i \in 1..Len(modelUsage)})

\* the object parseSessionFile returns.  The fields copied unchanged from
\* the store entry (chatType, contextWeight, systemPromptReport, memoryFlush*,
\* modelOverride, providerOverride) and filePath are left out.
SessionSummary(a, file, timelineLimit) ==
    LET ids == normalizeSessionIdFromFileName(file.fileName)
        entry == file.entry
        days == [i \in 1..Len(a.dailyMap) |->
                    [date |-> a.dailyMap[i].date, tokens |-> a.dailyMap[i].tokens,
                     cost |-> a.dailyMap[i].cost, messages |-> a.dailyMap[i].messages,
                     toolCalls |-> a.dailyMap[i].toolCalls, errors |-> a.dailyMap[i].errors,
                     latency |-> computeLatencyStats(
                         IF MapHas(a.dailyLatencies, a.dailyMap[i].date)
                         THEN MapGet(a.dailyLatencies, a.dailyMap[i].date).values
                         ELSE <<>>)]]
        daily == StableSort(days, [i \in 1..Len(days) |->
                                     [j \in 1..Len(days) |-> days[i].date < days[j].date]])
        toolRows == [i \in 1..Len(a.toolMap) |->
                        [name |-> a.toolMap[i].key, count |-> a.toolMap[i].count]]
        tools == StableSort(toolRows,
                            [i \in 1..Len(toolRows) |->
                               [j \in 1..Len(toolRows) |->
                                  toolRows[j].count - toolRows[i].count < 0]])
        modelUsage == StableSort(a.modelMap,
                                 [i \in 1..Len(a.modelMap) |->
                                    [j \in 1..Len(a.modelMap) |->
                                       sortByCostThenTokens(a.modelMap[i], a.modelMap[j])]])
        sortedTimeline ==
            StableSort(a.timeline,
                       [i \in 1..Len(a.timeline) |->
                          [j \in 1..Len(a.timeline) |->
                             a.timeline[i].timestamp - a.timeline[j].timestamp < 0]])
        sortedWaterfall ==
            StableSort(a.waterfall,
                       [i \in 1..Len(a.waterfall) |->
                          [j \in 1..Len(a.waterfall) |->
                             a.waterfall[i].startTs - a.waterfall[j].startTs < 0]])
    IN [id |-> <<file.agentId, ids.stem>>,
        key |-> IF entry.k = "obj" THEN <<"store", file.storeKey>>
                ELSE <<"agent", file.agentId, ids.stem>>,
        agentId |-> file.agentId,
        sessionId |-> ids.sessionId,
        fileName |-> file.fileName,
        label |-> IF entry.k = "obj" THEN asString(entry.label) ELSE None,
        channel |-> channelOf(entry),
        updatedAt |-> IF entry.k = "obj" /\ IsSome(toFinite(entry.updatedAt))
                      THEN Val(toFinite(entry.updatedAt)) ELSE file.mtimeMs,
        firstActivity |-> a.firstActivity,
        lastActivity |-> a.lastActivity,
        durationMs |-> IF IsSome(a.firstActivity) /\ IsSome(a.lastActivity)
                       THEN Some(Max(0, Val(a.lastActivity) - Val(a.firstActivity)))
                       ELSE None,
        totals |-> a.totals,
        messageCounts |-> a.messageCounts,
        toolUsage |-> [totalCalls |-> SumSeq([i \in 1..Len(a.toolMap) |-> a.toolMap[i].count]),
                       uniqueTools |-> Len(a.toolMap),
                       tools |-> tools],
        modelUsage |-> modelUsage,
        latency |-> computeLatencyStats(a.latencyValues),
        daily |-> daily,
        preview |-> a.preview,
        timeline |-> tailOf(sortedTimeline, timelineLimit),
        waterfall |-> tailOf(sortedWaterfall, timelineLimit),
        modelSwitches |-> a.modelSwitches,
        uniqueModels |-> uniqueModelsOf(modelUsage),
        activityDates |-> a.activityDates]

\* parseSessionFile as a whole: the fold of the loop over the lines, then
\* the summary
RECURSIVE ReadLines(_, _, _)
ReadLines(a, lines, rng) ==
    IF lines = <<>> THEN a
    ELSE ReadLines(ReadLine(a, lines[1], rng).acc, Tail(lines), rng)

parseSessionFile(file, rng, timelineLimit) ==
    SessionSummary(ReadLines(createAcc, file.lines, rng), file, timelineLimit)

---------------------------------------------------------------------------
(* Bounds and inputs of the session parser *)

\* the longest transcript read
MaxLines == 3

\* the instant the parsed window ends at, and the window's length in days
PARSE_NOW == 3 * DAY_MS
WINDOW_DAYS == 1

T_EPOCH == PARSE_NOW - 3 * DAY_MS
T_START == PARSE_NOW - WINDOW_DAYS * DAY_MS
T_MID == T_START + 1000
T_LATE == T_MID + 500
T_END == PARSE_NOW
T_FUTURE == PARSE_NOW + 1

AllRange == [startMs |-> None, endMs |-> PARSE_NOW]
WindowRange == [startMs |-> Some(T_START), endMs |-> PARSE_NOW]

FileName(id, topic) == [id |-> id, topic |-> topic]

\* the file the parser specification reads: no store entry
ParsedFile ==
    [agentId |-> "main", fileName |-> FileName("s1", ""), mtimeMs |-> T_MID,
     storeKey |-> "", entry |-> NoEntry, fault |-> "none", lines |-> <<>>]

ParseParams ==
    {[file |-> ParsedFile, range |-> r, timelineLimit |-> 2] : r \in {AllRange, WindowRange}}

Turn(role, ts) == [BaseLine EXCEPT !.role = Str(role), !.entryTs = IsoTs(ts)]

Lines ==
    { BlankLine, GarbageLine, NonObjectLine,
      \* a user turn whose usage is all zero and which carries a flat cost
      [Turn("user", T_MID) EXCEPT
          !.content = StringContent(<<" ", "h", "i">>),
          !.msgUsage = [UsageObj EXCEPT !.input = Num(0), !.total = Num(0)],
          !.msgCostTotal = Num(5)],
      \* a user turn with no timestamp
      [BaseLine EXCEPT !.role = Str("user"), !.content = StringContent(<<"y", "o">>)],
      \* an assistant turn of model A with a numeric message timestamp, no usage
      [BaseLine EXCEPT !.role = Str("assistant"), !.msgTs = Num(T_LATE),
          !.entryTs = Junk, !.msgProvider = Str("p1"), !.msgModel = Str("A")],
      \* an assistant turn of model B at the window's end: usage, a nested cost
      \* with a negative category
      [Turn("assistant", T_END) EXCEPT
          !.msgProvider = Str("p1"), !.msgModel = Str("B"),
          !.msgUsage = [UsageObj EXCEPT
              !.input = Num(5), !.output = Num(3),
              !.cost = [NoCostObj EXCEPT !.k = "obj", !.total = Num(2),
                                         !.input = Num(1), !.output = Num(1),
                                         !.cacheRead = Num(-1)]]],
      \* an assistant turn of model A, no timestamp: legacy usage names with an
      \* explicit total, a flat cost on the record
      [BaseLine EXCEPT !.role = Str("assistant"),
          !.recProvider = Str("p1"), !.recModel = Str("A"),
          !.recUsage = [UsageObj EXCEPT !.prompt_tokens = Num(5),
                                        !.completion_tokens = Num(3),
                                        !.total_tokens = Num(10)],
          !.recCostTotal = Num(4)],
      \* an assistant turn of unknown identity: a negative category, no cost
      [Turn("assistant", T_MID) EXCEPT
          !.msgUsage = [UsageObj EXCEPT !.input = Num(-5), !.output = Num(3)]],
      \* a tool result naming model B: an explicit total below its categories,
      \* a negative nested total, a negative first flat alias before a valid one
      [Turn("toolResult", T_MID) EXCEPT
          !.recModel = Str("B"),
          !.msgUsage = [UsageObj EXCEPT
              !.cacheRead = Num(7), !.totalTokens = Num(3),
              !.cost = [NoCostObj EXCEPT !.k = "obj", !.total = Num(-1)]],
          !.recCostTotal = Num(-2), !.msgCostTotal = Num(3)],
      \* an assistant turn of model A before the window: usage and cost
      [Turn("assistant", T_EPOCH) EXCEPT
          !.msgProvider = Str("p1"), !.msgModel = Str("A"),
          !.msgUsage = [UsageObj EXCEPT !.input = Num(5), !.output = Num(3),
              !.cost = [NoCostObj EXCEPT !.k = "obj", !.total = Num(2)]]],
      \* an assistant turn of model B after the window's end
      [Turn("assistant", T_FUTURE) EXCEPT
          !.msgProvider = Str("p1"), !.msgModel = Str("B"),
          !.msgUsage = [UsageObj EXCEPT !.output = Num(4)],
          !.msgCostTotal = Num(1)],
      \* an assistant turn with tool blocks, an error stop reason, a duration
      [Turn("assistant", T_LATE) EXCEPT
          !.msgStopReason = Str("ERROR"), !.recDurationMs = Num(50),
          !.content = ArrayContent(<<
              [Block("text") EXCEPT !.text = Txt(<<"o", "k">>)],
              [Block("tool_use") EXCEPT !.name = Txt(<<"r", "d">>)],
              [Block("tool_result") EXCEPT !.is_error = TRUE]>>)]
    }

---------------------------------------------------------------------------
(* Spec: parseSessionFile, one line of the stream per step *)

NoCall == [k |-> "none"]

FrozenScan == files = {} /\ spc = "off" /\ sidx = 0 /\ sessions = <<>>
FrozenCollect == clock = 0 /\ last = NoCall
FrozenPure == fnArgs = NoCall /\ fnResult = NoCall
FrozenServer == cache = <<>> /\ inflight = {} /\ reply = NoCall
FrozenParse ==
    /\ params = [file |-> ParsedFile, range |-> AllRange, timelineLimit |-> 0]
    /\ consumed = <<>> /\ acc = createAcc /\ cur = [line |-> BlankLine, loc |-> NoLocals]
    /\ ppc = "off" /\ summary = None

Init ==
    /\ params \in ParseParams
    /\ consumed = <<>>
    /\ acc = createAcc
    /\ cur = [line |-> BlankLine, loc |-> NoLocals]
    /\ ppc = "reading"
    /\ summary = None
    /\ FrozenScan /\ FrozenCollect /\ FrozenPure /\ FrozenServer

\* the for-await loop takes the next line of the stream
ParseLine ==
    /\ ppc = "reading"
    /\ Len(consumed) < MaxLines
    /\ \E line \in Lines :
         LET r == ReadLine(acc, line, params.range)
         IN /\ consumed' = Append(consumed, line)
            /\ acc' = r.acc
            /\ cur' = [line |-> line, loc |-> r.loc]
    /\ UNCHANGED <<params, ppc, summary, scanVars, collectVars, pureVars, serverVars>>

\* the stream ends: the summary is built and returned
ParseEnd ==
    /\ ppc = "reading"
    /\ ppc' = "done"
    /\ summary' = Some(SessionSummary(acc, params.file, params.timelineLimit))
    /\ UNCHANGED <<params, consumed, acc, cur, scanVars, collectVars, pureVars, serverVars>>

Next == ParseLine \/ ParseEnd

Spec == Init /\ [][Next]_vars

---------------------------------------------------------------------------
(* Claims about the session parser, checked under Spec *)

\* what a claim reads off a line, stated apart from the parser's own steps
IsRecordLine(l) == l.kind = "object"

LineTimestamp(l) ==
    IF l.entryTs.k = "iso" THEN Some(l.entryTs.v)
    ELSE IF l.msgTs.k = "num" THEN Some(l.msgTs.v) ELSE None

LineInRange(l, rng) ==
    LET t == LineTimestamp(l)
    IN t = None \/ ((rng.startMs = None \/ Val(rng.startMs) <= Val(t)) /\ Val(t) <= rng.endMs)

\* the records of the lines read that the loop body folds
FoldedLines(lines, rng) ==
    SelectSeq(lines, LAMBDA l : IsRecordLine(l) /\ LineInRange(l, rng))

LineProvider(l) ==
    IF l.msgProvider.k = "str" THEN l.msgProvider.s
    ELSE IF l.recProvider.k = "str" THEN l.recProvider.s ELSE "unknown"

LineModel(l) ==
    IF l.msgModel.k = "str" THEN l.msgModel.s
    ELSE IF l.recModel.k = "str" THEN l.recModel.s ELSE "unknown"

LineIdentity(l) == <<LineProvider(l), LineModel(l)>>

IsAssistant(l) == l.role = Str("assistant")

KnownIdentity(l) == LineIdentity(l) # <<"unknown", "unknown">>

LineUsageRaw(l) == IF l.msgUsage.k # "absent" THEN l.msgUsage ELSE l.recUsage

\* C3: a line that fails to decode as JSON, or decodes to no object, changes
\* no accumulator: the accumulators, and the summary returned when the stream
\* ends, are those of the same lines with the malformed ones removed.
C3_MalformedLinesSkipped ==
    LET good == SelectSeq(consumed, IsRecordLine)
    IN /\ acc = ReadLines(createAcc, good, params.range)
       /\ ppc = "done" =>
            summary = Some(parseSessionFile([params.file EXCEPT !.lines = good],
                                            params.range, params.timelineLimit))

\* a transcript with a rejected line between two folded records was summarised
C3_Witness ==
    /\ ppc = "done"
    /\ Len(consumed) = 3
    /\ IsRecordLine(consumed[1]) /\ consumed[2] = GarbageLine /\ IsRecordLine(consumed[3])
    /\ Val(summary).messageCounts.total = 2

\* the number of adjacent pairs of a sequence that differ
CountChanges(ids) == Cardinality({i \in 2..Len(ids) : ids[i] # ids[i - 1]})

\* C7: modelSwitches is the number of times an in-range assistant turn of
\* known identity differs from the most recent earlier assistant turn of
\* known identity; other roles and unknown identities neither count nor reset.
C7_ModelSwitchCount ==
    LET turns == SelectSeq(FoldedLines(consumed, params.range),
                           LAMBDA l : IsAssistant(l) /\ KnownIdentity(l))
    IN acc.modelSwitches = CountChanges([i \in 1..Len(turns) |-> LineIdentity(turns[i])])

\* assistant turns A, B, A were read: two switches
C7_Witness ==
    /\ Len(consumed) = 3
    /\ \A i \in 1..3 : IsAssistant(consumed[i]) /\ LineInRange(consumed[i], params.range)
    /\ LineModel(consumed[1]) = "A" /\ LineModel(consumed[2]) = "B"
    /\ LineModel(consumed[3]) = "A"
    /\ acc.modelSwitches = 2

\* C8 as claimed: uniqueModels is the number of distinct model identities of
\* the session's assistant turns, whether or not the turns carry usage.
C8_UniqueModelsOfAssistantTurns ==
    ppc = "done" =>
        Val(summary).uniqueModels =
            Cardinality({LineIdentity(l) :
                           l \in {consumed[i] : i \in {j \in 1..Len(consumed) :
                                     /\ IsRecordLine(consumed[j])
                                     /\ LineInRange(consumed[j], params.range)
                                     /\ IsAssistant(consumed[j])
                                     /\ KnownIdentity(consumed[j])}}})

\* the first finite flat cost alias of a line, in the order the loop reads them
LineFlatCost(l) ==
    CASE l.recCostTotal.k = "num" -> Some(l.recCostTotal.v)
      [] l.msgCostTotal.k = "num" -> Some(l.msgCostTotal.v)
      [] l.recCostObjTotal.k = "num" -> Some(l.recCostObjTotal.v)
      [] l.msgCostObjTotal.k = "num" -> Some(l.msgCostObjTotal.v)
      [] OTHER -> None

LineNestedCostOk(l) ==
    LET u == LineUsageRaw(l)
    IN u.k = "obj" /\ u.cost.k = "obj" /\ u.cost.total.k = "num" /\ u.cost.total.v >= 0

\* the step read one more line
LineRead == Len(consumed') = Len(consumed) + 1

\* C9: a record folded with a usage tuple does exactly one of: add its nested
\* cost total (finite, >= 0) to totalCost; else add its flat cost total
\* (finite, >= 0); else add 1 to missingCostEntries and leave totalCost.  A
\* record without usage changes neither.
C9_CostResolution ==
    [][LineRead =>
        LET l == cur'.line
            dCost == acc'.totals.totalCost - acc.totals.totalCost
            dMissing == acc'.totals.missingCostEntries - acc.totals.missingCostEntries
            flat == LineFlatCost(l)
        IN IF IsSome(cur'.loc.usage)
           THEN CASE LineNestedCostOk(l) ->
                       dCost = LineUsageRaw(l).cost.total.v /\ dMissing = 0
                  [] ~LineNestedCostOk(l) /\ IsSome(flat) /\ Val(flat) >= 0 ->
                       dCost = Val(flat) /\ dMissing = 0
                  [] OTHER -> dCost = 0 /\ dMissing = 1
           ELSE dCost = 0 /\ dMissing = 0
    ]_vars

\* records were folded whose cost came from a breakdown or a flat total, and
\* the last one, with usage and a negative flat alias, counted as missing
C9_Witness ==
    /\ IsSome(cur.loc.usage)
    /\ ~LineNestedCostOk(cur.line)
    /\ IsSome(LineFlatCost(cur.line)) /\ Val(LineFlatCost(cur.line)) < 0
    /\ acc.totals.missingCostEntries = 1
    /\ acc.totals.totalCost > 0

NoExplicitTotal(u) == u.total.k # "num" /\ u.totalTokens.k # "num" /\ u.total_tokens.k # "num"

\* C10 as claimed: with no explicit total, the normalized total is the sum of
\* the tuple's input, output, cacheRead and cacheWrite; a tuple whose fields
\* are all zero is absent.
C10_UsageDefaulting ==
    LET raw == LineUsageRaw(cur.line)
        u == cur.loc.usage
    IN (IsRecordLine(cur.line) /\ cur.loc.inRange /\ raw.k = "obj") =>
         /\ (NoExplicitTotal(raw) /\ IsSome(u)) =>
               Val(u).total = Val(u).input + Val(u).output + Val(u).cacheRead + Val(u).cacheWrite
         /\ (IsSome(u) => Val(u).total + Val(u).input + Val(u).output
                          + Val(u).cacheRead + Val(u).cacheWrite > 0)

---------------------------------------------------------------------------
(* Fleet Aggregator: aggregateSessions (lines 1030-1239) *)

OrEmpty(o) == IF IsSome(o) THEN Val(o) ELSE ""

\* the predicate of sessions.filter: filter.agent and filter.channel are a
\* non-empty string or null
passesFilter(session, filter) ==
    /\ ~(IsSome(filter.agent) /\ session.agentId # Val(filter.agent))
    /\ ~(IsSome(filter.channel) /\ OrEmpty(session.channel) # Val(filter.channel))

\* the latency accumulator: min is None for Number.POSITIVE_INFINITY
createLatency == [count |-> 0, sum |-> 0, min |-> None, max |-> 0, p95Max |-> 0]

\* if (stats?.count) { count += ...; sum += avgMs * count; min; max; p95Max }.
\* avgMs * count is taken exactly: the sum of the samples behind the average.
foldLatency(target, stats) ==
    IF IsSome(stats) /\ Val(stats).count # 0
    THEN LET s == Val(stats)
         IN [count |-> target.count + s.count,
             sum |-> target.sum + (s.avgMs.num * s.count) \div s.avgMs.den,
             min |-> IF IsSome(target.min) THEN Some(Min(Val(target.min), s.minMs))
                     ELSE Some(s.minMs),
             max |-> Max(target.max, s.maxMs),
             p95Max |-> Max(target.p95Max, s.p95Ms)]
    ELSE target

\* count > 0 ? {count, avgMs: sum / count, minMs, maxMs, p95Ms: p95Max} : null
latencyStatsOf(lat) ==
    IF lat.count > 0
    THEN Some([count |-> lat.count, avgMs |-> [num |-> lat.sum, den |-> lat.count],
               minMs |-> Val(lat.min), maxMs |-> lat.max, p95Ms |-> lat.p95Max])
    ELSE None

\* for (const tool of session.toolUsage.tools) toolsMap.set(...)
RECURSIVE foldTools(_, _)
foldTools(toolsMap, tools) ==
    IF tools = <<>> THEN toolsMap
    ELSE LET old == IF MapHas(toolsMap, tools[1].name)
                    THEN MapGet(toolsMap, tools[1].name).count ELSE 0
         IN foldTools(MapSet(toolsMap, [key |-> tools[1].name, name |-> tools[1].name,
                                        count |-> old + tools[1].count]),
                      Tail(tools))

\* for (const model of session.modelUsage): the by-model and by-provider rows
RECURSIVE foldModels(_, _)
foldModels(maps, modelUsage) ==
    IF modelUsage = <<>> THEN maps
    ELSE LET model == modelUsage[1]
             modelKey == modelKeyOf(model.provider, model.model)
             modelRow == IF MapHas(maps.byModel, modelKey) THEN MapGet(maps.byModel, modelKey)
                         ELSE [key |-> modelKey, provider |-> model.provider,
                               model |-> model.model, count |-> 0, sessions |-> 0,
                               totals |-> createTotals]
             providerKey == OrUnknown(model.provider)
             providerRow == IF MapHas(maps.byProvider, providerKey)
                            THEN MapGet(maps.byProvider, providerKey)
                            ELSE [key |-> providerKey, provider |-> model.provider,
                                  count |-> 0, sessions |-> 0, totals |-> createTotals]
         IN foldModels(
                [byModel |-> MapSet(maps.byModel,
                                    [modelRow EXCEPT !.count = @ + model.count,
                                                     !.sessions = @ + 1,
                                                     !.totals = mergeTotals(@, model.totals)]),
                 byProvider |-> MapSet(maps.byProvider,
                                       [providerRow EXCEPT !.count = @ + model.count,
                                                           !.sessions = @ + 1,
                                                           !.totals = mergeTotals(@, model.totals)])],
                Tail(modelUsage))

\* for (const day of session.daily): the fleet's day buckets
RECURSIVE foldDaily(_, _)
foldDaily(dailyMap, days) ==
    IF days = <<>> THEN dailyMap
    ELSE LET day == days[1]
             daily == IF MapHas(dailyMap, day.date) THEN MapGet(dailyMap, day.date)
                      ELSE [key |-> day.date, date |-> day.date, tokens |-> 0, cost |-> 0,
                            messages |-> 0, toolCalls |-> 0, errors |-> 0,
                            latency |-> createLatency]
         IN foldDaily(MapSet(dailyMap,
                             [daily EXCEPT !.tokens = @ + day.tokens,
                                           !.cost = @ + day.cost,
                                           !.messages = @ + day.messages,
                                           !.toolCalls = @ + day.toolCalls,
                                           !.errors = @ + day.errors,
                                           !.latency = foldLatency(@, day.latency)]),
                      Tail(days))

\* the accumulators aggregateSessions declares before its loop
createFleet ==
    [totals |-> createTotals,
     messages |-> [total |-> 0, user |-> 0, assistant |-> 0, toolCalls |-> 0,
                   toolResults |-> 0, errors |-> 0],
     latency |-> createLatency,
     toolsMap |-> <<>>, byModelMap |-> <<>>, byProviderMap |-> <<>>, byAgentMap |-> <<>>,
     byChannelMap |-> <<>>, dailyMap |-> <<>>]

\* a mutant of countSession: the session's cost is left out of the row
countSessionTokensOnly(row, session) ==
    [row EXCEPT !.sessions = @ + 1,
                !.totals = mergeTotals(@, [session.totals EXCEPT !.totalCost = 0])]

\* row.sessions += 1; mergeTotals(row.totals, session.totals): what the loop
\* does to the session's agent row and to its channel row
countSession(row, session) ==
    [row EXCEPT !.sessions = @ + 1, !.totals = mergeTotals(@, session.totals)]

\* one iteration of "for (const session of filtered)"
foldSession(g, session) ==
    LET maps == foldModels([byModel |-> g.byModelMap, byProvider |-> g.byProviderMap],
                           session.modelUsage)
        agentRow == IF MapHas(g.byAgentMap, session.agentId)
                    THEN MapGet(g.byAgentMap, session.agentId)
                    ELSE [key |-> session.agentId, agentId |-> session.agentId,
                          sessions |-> 0, totals |-> createTotals]
        channelKey == OrUnknown(session.channel)
        channelRow == IF MapHas(g.byChannelMap, channelKey)
                      THEN MapGet(g.byChannelMap, channelKey)
                      ELSE [key |-> channelKey, channel |-> channelKey,
                            sessions |-> 0, totals |-> createTotals]
    IN [totals |-> mergeTotals(g.totals, session.totals),
        messages |->
            [total |-> g.messages.total + session.messageCounts.total,
             user |-> g.messages.user + session.messageCounts.user,
             assistant |-> g.messages.assistant + session.messageCounts.assistant,
             toolCalls |-> g.messages.toolCalls + session.messageCounts.toolCalls,
             toolResults |-> g.messages.toolResults + session.messageCounts.toolResults,
             errors |-> g.messages.errors + session.messageCounts.errors],
        latency |-> foldLatency(g.latency, session.latency),
        toolsMap |-> foldTools(g.toolsMap, session.toolUsage.tools),
        byModelMap |-> maps.byModel,
        byProviderMap |-> maps.byProvider,
        byAgentMap |-> MapSet(g.byAgentMap, countSession(agentRow, session)),
        byChannelMap |-> MapSet(g.byChannelMap, countSession(channelRow, session)),
        dailyMap |-> foldDaily(g.dailyMap, session.daily)]

RECURSIVE foldSessions(_, _)
foldSessions(g, filtered) ==
    IF filtered = <<>> THEN g
    ELSE Only({foldSessions(next, Tail(filtered)) : next \in {foldSession(g, filtered[1])}})

\* rows.sort(sortByCostThenTokens)
rankByCostThenTokens(rows) ==
    StableSort(rows, [i \in 1..Len(rows) |->
                        [j \in 1..Len(rows) |-> sortByCostThenTokens(rows[i], rows[j])]])

\* rows.sort((a, b) => b.count - a.count)
rankByCount(rows) ==
    StableSort(rows, [i \in 1..Len(rows) |->
                        [j \in 1..Len(rows) |-> rows[j].count - rows[i].count < 0]])

\* the fleet's day rows, sorted by date
fleetDaily(dailyMap) ==
    LET days == [i \in 1..Len(dailyMap) |->
                    [date |-> dailyMap[i].date, tokens |-> dailyMap[i].tokens,
                     cost |-> dailyMap[i].cost, messages |-> dailyMap[i].messages,
                     toolCalls |-> dailyMap[i].toolCalls, errors |-> dailyMap[i].errors,
                     latency |-> latencyStatsOf(dailyMap[i].latency)]]
    IN StableSort(days, [i \in 1..Len(days) |->
                           [j \in 1..Len(days) |-> days[i].date < days[j].date]])

\* aggregateSessions({sessions, filter}).  No session of the model carries a
\* context-size report, so the context table is empty.  A row of a table
\* built from a map's values keeps the key the map files it under.
aggregateSessions(sessionList, filter) ==
    LET keep(session) == passesFilter(session, filter)
        result(filtered, g) ==
            [filtered |-> filtered,
             totals |-> g.totals,
             messages |-> g.messages,
             latency |-> latencyStatsOf(g.latency),
             aggregates |->
                 [daily |-> fleetDaily(g.dailyMap),
                  tools |-> rankByCount([i \in 1..Len(g.toolsMap) |->
                                           [name |-> g.toolsMap[i].name,
                                            count |-> g.toolsMap[i].count]]),
                  byModel |-> rankByCostThenTokens(g.byModelMap),
                  byProvider |-> rankByCostThenTokens(g.byProviderMap),
                  byAgent |-> rankByCostThenTokens(g.byAgentMap),
                  byChannel |-> rankByCostThenTokens(g.byChannelMap),
                  context |-> <<>>]]
        fold(filtered) ==
            Only({result(filtered, g) : g \in {foldSessions(createFleet, filtered)}})
    IN Only({fold(filtered) : filtered \in {SelectSeq(sessionList, keep)}})

---------------------------------------------------------------------------
(* Anomaly Detector: buildAnomalies (lines 892-956).  A quotient is kept   *)
(* exactly, as its numerator and denominator (den > 0).                    *)

RECURSIVE GCD(_, _)
GCD(a, b) == IF b = 0 THEN a ELSE GCD(b, a % b)

\* the quotient n / d in lowest terms
Rat(n, d) ==
    LET g == GCD(IF n < 0 THEN -n ELSE n, d)
    IN [num |-> n \div g, den |-> d \div g]

RatAdd(a, b) == Rat(a.num * b.den + b.num * a.den, a.den * b.den)
RatSub(a, b) == Rat(a.num * b.den - b.num * a.den, a.den * b.den)
RatMul(a, b) == Rat(a.num * b.num, a.den * b.den)
\* a >= b
RatGe(a, b) == a.num * b.den >= b.num * a.den

RECURSIVE RatSum(_)
RatSum(s) == IF s = <<>> THEN Rat(0, 1) ELSE RatAdd(s[1], RatSum(Tail(s)))

\* calcMean(values): values are quotients
calcMean(values) ==
    IF values = <<>> THEN Rat(0, 1)
    ELSE LET sum == RatSum(values) IN Rat(sum.num, sum.den * Len(values))

\* a mutant of calcVariance: the population variance, over n
calcVarianceOverN(values, mean) ==
    IF Len(values) < 2 THEN Rat(0, 1)
    ELSE LET sq == [i \in 1..Len(values) |->
                      RatMul(RatSub(values[i], mean), RatSub(values[i], mean))]
             sum == RatSum(sq)
         IN Rat(sum.num, sum.den * Len(values))

\* the variance calcStdDev takes the square root of
calcVariance(values, mean) ==
    IF Len(values) < 2 THEN Rat(0, 1)
    ELSE LET sq == [i \in 1..Len(values) |->
                      RatMul(RatSub(values[i], mean), RatSub(values[i], mean))]
             sum == RatSum(sq)
         IN Rat(sum.num, sum.den * (Len(values) - 1))

\* a mutant of spikeTest: the floor is met by 5000 tokens
spikeTestFloorMet(tokens, ratio) == tokens >= 5000 /\ RatGe(ratio, Rat(23, 10))

\* last.tokens > 5000 && ratio >= 2.3
spikeTest(tokens, ratio) == tokens > 5000 /\ RatGe(ratio, Rat(23, 10))

\* the token-spike rows
tokenSpikesOf(daily) ==
    IF Len(daily) < 4 THEN <<>>
    ELSE LET ordered == StableSort(daily, [i \in 1..Len(daily) |->
                                             [j \in 1..Len(daily) |->
                                                daily[i].date < daily[j].date]])
             lastDay == ordered[Len(ordered)]
             isPositive(n) == n > 0
             previous == SelectSeq([i \in 1..Len(ordered) - 1 |-> ordered[i].tokens],
                                   isPositive)
             baseline == calcMean([i \in 1..Len(previous) |-> Rat(previous[i], 1)])
             \* baseline > 0 ? lastDay.tokens / baseline : 0
             ratio == IF baseline.num > 0 THEN Rat(lastDay.tokens * baseline.den, baseline.num)
                      ELSE Rat(0, 1)
         IN IF Len(previous) >= 3 /\ spikeTest(lastDay.tokens, ratio)
            THEN <<[date |-> lastDay.date, tokens |-> lastDay.tokens, baselineTokens |-> baseline,
                    ratio |-> ratio]>>
            ELSE <<>>

\* the latency-jitter row, or None.  The coefficient of variation std / mean
\* is kept as its square, variance / mean^2; cv >= 0.45 iff cv^2 >= 0.2025.
latencyJitterOf(daily, latency) ==
    LET rows == [i \in 1..Len(daily) |->
                    [date |-> daily[i].date,
                     avgMs |-> IF IsSome(daily[i].latency)
                               THEN Some(Val(daily[i].latency).avgMs) ELSE None,
                     p95Ms |-> IF IsSome(daily[i].latency)
                               THEN Some(Val(daily[i].latency).p95Ms) ELSE None]]
        hasAvg(d) == IsSome(d.avgMs)
        dailyLatency == SelectSeq(rows, hasAvg)
        avgs == [i \in 1..Len(dailyLatency) |-> Val(dailyLatency[i].avgMs)]
        mean == calcMean(avgs)
        variance == calcVariance(avgs, mean)
        cvSquared == IF mean.num > 0
                     THEN Rat(variance.num * mean.den * mean.den,
                              variance.den * mean.num * mean.num)
                     ELSE Rat(0, 1)
        globalP95Ratio ==
            IF IsSome(latency) /\ Val(latency).avgMs.num > 0 /\ Val(latency).p95Ms > 0
            THEN Rat(Val(latency).p95Ms * Val(latency).avgMs.den, Val(latency).avgMs.num)
            ELSE Rat(0, 1)
    IN IF Len(dailyLatency) >= 4
          /\ (RatGe(cvSquared, Rat(2025, 10000)) \/ RatGe(globalP95Ratio, Rat(22, 10)))
       THEN Some([coefficientOfVariationSquared |-> cvSquared,
                  globalP95ToAvgRatio |-> globalP95Ratio,
                  days |-> dailyLatency])
       ELSE None

\* the model-switching rows, most switches first
modelSwitchingOf(sessionList) ==
    LET switching(session) == session.uniqueModels > 1 \/ session.modelSwitches > 0
        picked == SelectSeq(sessionList, switching)
        rows == [i \in 1..Len(picked) |->
                   [sessionId |-> picked[i].sessionId, key |-> picked[i].key,
                    agentId |-> picked[i].agentId, label |-> picked[i].label,
                    switches |-> picked[i].modelSwitches,
                    uniqueModels |-> picked[i].uniqueModels,
                    models |-> [k \in 1..Min(8, Len(picked[i].modelUsage)) |->
                                  [provider |-> OrUnknown(picked[i].modelUsage[k].provider),
                                   model |-> OrUnknown(picked[i].modelUsage[k].model),
                                   tokens |-> picked[i].modelUsage[k].totals.totalTokens,
                                   cost |-> picked[i].modelUsage[k].totals.totalCost]],
                    updatedAt |-> picked[i].updatedAt]]
    IN StableSort(rows, [i \in 1..Len(rows) |->
                           [j \in 1..Len(rows) |->
                              IF rows[j].switches - rows[i].switches # 0
                              THEN rows[j].switches - rows[i].switches < 0
                              ELSE rows[j].uniqueModels - rows[i].uniqueModels < 0]])

buildAnomalies(daily, sessionList, latency) ==
    [tokenSpikes |-> tokenSpikesOf(daily),
     latencyJitter |-> latencyJitterOf(daily, latency),
     modelSwitching |-> modelSwitchingOf(sessionList)]

---------------------------------------------------------------------------
(* Alerts: buildAlerts (lines 958-1028).  An alert's message is kept as the *)
(* numbers it prints.                                                      *)

\* (q).toFixed(digits) with scale = 10^digits: q * scale rounded to the
\* nearest integer
toFixed(q, scale) == (2 * q.num * scale + q.den) \div (2 * q.den)

\* a mutant of isStale: a session updated exactly 14 days ago is stale
isStaleInclusive(session, now) ==
    session.updatedAt # 0 /\ now - session.updatedAt >= 14 * DAY_MS

\* the predicate of staleSessions; now is the reading of Date.now().  A
\* summary's updatedAt is never undefined (it falls back to the file's mtime).
isStale(session, now) ==
    session.updatedAt # 0 /\ now - session.updatedAt > 14 * DAY_MS

\* a mutant of lowCacheShare: the share is judged at any volume
lowCacheShareAnyVolume(cacheRate, totalTokens) == ~RatGe(cacheRate, Rat(5, 1))

\* cacheRate < 5 && totals.totalTokens > 5000
lowCacheShare(cacheRate, totalTokens) == ~RatGe(cacheRate, Rat(5, 1)) /\ totalTokens > 5000

Alert(level, title, shown) == [level |-> level, title |-> title, shown |-> shown]

buildAlerts(totals, messages, sessionList, memory, anomalies, now) ==
    LET errorRate == IF messages.total > 0 THEN Rat(messages.errors * 100, messages.total)
                     ELSE Rat(0, 1)
        cacheRate == IF totals.totalTokens > 0
                     THEN Rat(totals.cacheRead * 100, totals.totalTokens)
                     ELSE Rat(0, 1)
        stale(s) == isStale(s, now)
        staleSessions == Len(SelectSeq(sessionList, stale))
        spikes == anomalies.tokenSpikes
    IN (IF RatGe(errorRate, Rat(5, 1))
        THEN <<Alert("warn", "Error Rate Elevated", <<toFixed(errorRate, 10)>>)>>
        ELSE <<>>)
       \o (IF lowCacheShare(cacheRate, totals.totalTokens)
           THEN <<Alert("info", "Low Cache Read Share", <<toFixed(cacheRate, 10)>>)>>
           ELSE <<>>)
       \o (IF staleSessions > 0
           THEN <<Alert("info", "Stale Sessions Present", <<staleSessions>>)>>
           ELSE <<>>)
       \o (IF memory.exists /\ memory.fileCount > 1000
           THEN <<Alert("warn", "Large Memory Corpus", <<memory.fileCount>>)>>
           ELSE <<>>)
       \o [i \in 1..Len(spikes) |->
              Alert("warn", "Token Spike Detected",
                    <<spikes[i].date, spikes[i].tokens, toFixed(spikes[i].ratio, 100)>>)]
       \o (IF IsSome(anomalies.latencyJitter)
           THEN <<Alert("warn", "Latency Jitter Detected",
                        <<Val(anomalies.latencyJitter).coefficientOfVariationSquared,
                          toFixed(Val(anomalies.latencyJitter).globalP95ToAvgRatio, 100)>>)>>
           ELSE <<>>)
       \o (IF Len(anomalies.modelSwitching) > 0
           THEN <<Alert("info", "Model Switching Sessions", <<Len(anomalies.modelSwitching)>>)>>
           ELSE <<>>)

\* collectMemoryStats where the workspace has no memory directory
NoMemory ==
    [exists |-> FALSE, fileCount |-> 0, totalBytes |-> 0, newestMs |-> None,
     oldestMs |-> None, byDay |-> <<>>, files |-> <<>>, keywords |-> <<>>]

\* a workspace: whether it has a memory directory, whether that directory
\* can be listed and, in the order the walk meets them, the files below it.
\* A file has its path, the number of directories between it and the memory
\* directory, its extension, whether fsp.stat succeeds on it, its size, its
\* mtime, and the words of its title and snippet.  A word is what
\* toLowerCase, the removal of every character outside a-z, 0-9 and white
\* space, and the split on white space leave of it: the letters that remain
\* (an identifier), their number, and whether WORD_BLACKLIST has them.
NoCorpus == [exists |-> FALSE, readable |-> FALSE, entries |-> <<>>]
Corpus(entries) == [exists |-> TRUE, readable |-> TRUE, entries |-> entries]
UnreadableCorpus(entries) == [exists |-> TRUE, readable |-> FALSE, entries |-> entries]

Word(id, length) == [id |-> id, length |-> length, blacklisted |-> FALSE]
CorpusFile(relativePath, ext, size, mtimeMs, words) ==
    [relativePath |-> relativePath, dirDepth |-> 0, ext |-> ext, statOk |-> TRUE,
     size |-> size, mtimeMs |-> mtimeMs, words |-> words]

Greatest(S) == CHOOSE x \in S : \A y \in S : y <= x
Least(S) == CHOOSE x \in S : \A y \in S : x <= y

\* walkFilesRecursive(memoryDir, filePaths, maxDepth): a directory that cannot
\* be listed yields nothing, a directory deeper than maxDepth is not entered
walkFilesRecursive(corpus, maxDepth) ==
    IF ~corpus.readable THEN <<>>
    ELSE SelectSeq(corpus.entries, LAMBDA f : f.dirDepth <= maxDepth)

\* /\.(md|mdx|txt)$/iu.test(filePath)
isMarkdown(f) == toLowerCase(f.ext) \in {"md", "mdx", "txt"}

\* tokenizeWords(input)
tokenizeWords(words) == SelectSeq(words, LAMBDA w : w.length >= 4 /\ ~w.blacklisted)

\* the per-day file counts and sizes, in the order the days are first met
RECURSIVE memoryByDay(_, _)
memoryByDay(byDayMap, rows) ==
    IF rows = <<>> THEN byDayMap
    ELSE LET day == dayKeyFromMs(rows[1].mtimeMs)
             byDay == IF MapHas(byDayMap, day) THEN MapGet(byDayMap, day)
                      ELSE [key |-> day, files |-> 0, bytes |-> 0]
         IN memoryByDay(MapSet(byDayMap, [byDay EXCEPT !.files = @ + 1,
                                                        !.bytes = @ + rows[1].size]),
                        Tail(rows))

\* keywordMap.set(token, (keywordMap.get(token) ?? 0) + 1) for every token
RECURSIVE countWords(_, _)
countWords(keywordMap, tokens) ==
    IF tokens = <<>> THEN keywordMap
    ELSE LET word == tokens[1].id
             count == IF MapHas(keywordMap, word) THEN MapGet(keywordMap, word).count ELSE 0
         IN Only({countWords(counted, Tail(tokens)) :
                     counted \in {MapSet(keywordMap, [key |-> word, count |-> count + 1])}})

RECURSIVE memoryKeywords(_, _)
memoryKeywords(keywordMap, rows) ==
    IF rows = <<>> THEN keywordMap
    ELSE Only({memoryKeywords(counted, Tail(rows)) :
                  counted \in {countWords(keywordMap, tokenizeWords(rows[1].words))}})

\* array.slice(0, n)
sliceTo(s, n) == SubSeq(s, 1, Min(n, Len(s)))

\* a mutant of the sort of the file rows: the oldest file first
olderFirst(a, b) == a.mtimeMs - b.mtimeMs < 0

\* (a, b) => b.mtimeMs - a.mtimeMs, negative
newerFirst(a, b) == b.mtimeMs - a.mtimeMs < 0

\* a mutant of the sort of the keywords: the rarest word first
rarerFirst(a, b) == a.count - b.count < 0

\* (a, b) => b.count - a.count, negative
moreFrequentFirst(a, b) == b.count - a.count < 0

\* collectMemoryStats({ workspaceDir, memoryLimit })
collectMemoryStats(corpus, memoryLimit) ==
    IF ~corpus.exists THEN NoMemory
    ELSE LET filePaths == walkFilesRecursive(corpus, 6)
             markdownFiles == SelectSeq(filePaths, isMarkdown)
             rows == SelectSeq(markdownFiles, LAMBDA f : f.statOk)
             n == Len(rows)
             pushed == [i \in 1..n |-> [relativePath |-> rows[i].relativePath,
                                        size |-> rows[i].size,
                                        mtimeMs |-> rows[i].mtimeMs]]
             fileRows == StableSort(pushed, [i \in 1..n |-> [j \in 1..n |->
                                                newerFirst(pushed[i], pushed[j])]])
             byDay == memoryByDay(<<>>, rows)
             byDate == [i \in 1..Len(byDay) |-> [j \in 1..Len(byDay) |->
                           byDay[i].key < byDay[j].key]]
             keywordMap == memoryKeywords(<<>>, rows)
             counted == [i \in 1..Len(keywordMap) |->
                            [word |-> keywordMap[i].key, count |-> keywordMap[i].count]]
             byCount == [i \in 1..Len(counted) |-> [j \in 1..Len(counted) |->
                            moreFrequentFirst(counted[i], counted[j])]]
         IN [exists |-> TRUE,
             fileCount |-> n,
             totalBytes |-> SumSeq([i \in 1..n |-> rows[i].size]),
             newestMs |-> IF n = 0 THEN None
                          ELSE Some(Greatest({rows[i].mtimeMs : i \in 1..n})),
             oldestMs |-> IF n = 0 THEN None
                          ELSE Some(Least({rows[i].mtimeMs : i \in 1..n})),
             byDay |-> StableSort(byDay, byDate),
             files |-> sliceTo(fileRows, Max(10, memoryLimit)),
             keywords |-> sliceTo(StableSort(counted, byCount), 24)]

---------------------------------------------------------------------------
(* Session scan: listAgents and collectSessionsFromState (lines 1261-1314). *)
(* The state directory is a set of transcript files; each file carries its *)
(* agent, its name, its mtime, the store entry resolveSessionMeta finds    *)
(* for it, its lines, and the fault reading it meets ("none", "stat" when  *)
(* fsp.stat rejects, "stream" when the line stream fails).                 *)

\* the names of the model, in the order localeCompare puts them
LOCALE_ORDER == <<"cli", "main", "ops", "s1", "s2", "web">>

localeRank(s) == CHOOSE i \in 1..Len(LOCALE_ORDER) : LOCALE_ORDER[i] = s

\* a.localeCompare(b)
localeCompare(a, b) == localeRank(a) - localeRank(b)

\* names.sort((a, b) => a.localeCompare(b)) of distinct names
RECURSIVE sortNames(_)
sortNames(names) ==
    IF names = {} THEN <<>>
    ELSE LET first == CHOOSE n \in names : \A m \in names : localeCompare(n, m) <= 0
         IN <<first>> \o sortNames(names \ {first})

\* the agent directories, sorted
listAgents(fs) == sortNames({f.agentId : f \in fs})

\* the transcripts of one agent in the order of their sorted file names
sessionFilesOf(fs, agentId) ==
    LET ids == sortNames({f.fileName.id : f \in {g \in fs : g.agentId = agentId}})
    IN [i \in 1..Len(ids) |->
          CHOOSE f \in fs : f.agentId = agentId /\ f.fileName.id = ids[i]]

\* the order in which the two nested loops reach the files
RECURSIVE scanOrder(_, _)
scanOrder(fs, agents) ==
    IF agents = <<>> THEN <<>>
    ELSE sessionFilesOf(fs, agents[1]) \o scanOrder(fs, Tail(agents))

\* a mutant of scanFile: a failing file leaves the summary of an empty
\* transcript in the list
scanFilePushingEmpty(sessionList, file, rng, timelineLimit) ==
    Append(sessionList,
           parseSessionFile(IF file.fault = "none" THEN file ELSE [file EXCEPT !.lines = <<>>],
                            rng, timelineLimit))

\* try { sessions.push(await parseSessionFile(...)) } catch { }
scanFile(sessionList, file, rng, timelineLimit) ==
    IF file.fault = "none"
    THEN Append(sessionList, parseSessionFile(file, rng, timelineLimit))
    ELSE sessionList

\* a mutant of byUpdatedAtDesc: the oldest session first
byUpdatedAtAsc(a, b) == a.updatedAt - b.updatedAt < 0

\* (b.updatedAt ?? 0) - (a.updatedAt ?? 0) < 0
byUpdatedAtDesc(a, b) == b.updatedAt - a.updatedAt < 0

\* sessions.sort(...)
sortSessions(sessionList) ==
    StableSort(sessionList,
               [i \in 1..Len(sessionList) |->
                  [j \in 1..Len(sessionList) |->
                     byUpdatedAtDesc(sessionList[i], sessionList[j])]])

RECURSIVE scanFiles(_, _, _, _)
scanFiles(sessionList, queue, rng, timelineLimit) ==
    IF queue = <<>> THEN sessionList
    ELSE scanFiles(scanFile(sessionList, queue[1], rng, timelineLimit), Tail(queue),
                   rng, timelineLimit)

collectSessionsFromState(fs, rng, timelineLimit) ==
    LET agents == listAgents(fs)
    IN [agents |-> agents,
        sessions |-> sortSessions(scanFiles(<<>>, scanOrder(fs, agents), rng, timelineLimit))]

---------------------------------------------------------------------------
(* Orchestration: collectOpenClawMetrics (lines 1316-1418) *)

DIGITS == <<"0", "1", "2", "3", "4", "5", "6", "7", "8", "9">>

isNumeral(cs) == cs # <<>> /\ \A i \in 1..Len(cs) : \E d \in 1..Len(DIGITS) : DIGITS[d] = cs[i]

RECURSIVE decimalOf(_)
decimalOf(cs) ==
    IF cs = <<>> THEN 0
    ELSE decimalOf(SubSeq(cs, 1, Len(cs) - 1)) * 10
         + (CHOOSE d \in 1..Len(DIGITS) : DIGITS[d] = cs[Len(cs)]) - 1

\* Number(string): the numerals of the model are unsigned decimal integers;
\* any other text is NaN, here None
NumberOf(cs) ==
    IF trim(cs) = <<>> THEN Some(0)
    ELSE IF isNumeral(trim(cs)) THEN Some(decimalOf(trim(cs)))
    ELSE None

\* options.days === "all"
DaysAll == Txt(<<"a", "l", "l">>)

\* numericDays, then days: a finite positive number, or None for undefined
daysOf(daysInput) ==
    LET numericDays ==
            IF daysInput = DaysAll THEN None
            ELSE IF daysInput.k = "num" THEN Some(daysInput.v)
            ELSE IF daysInput.k = "str" /\ trim(daysInput.s) # <<>> THEN NumberOf(daysInput.s)
            ELSE Some(30)
    IN IF IsSome(numericDays) /\ Val(numericDays) > 0 THEN numericDays ELSE None

\* the range object; a startMs of None is Number.NEGATIVE_INFINITY, a days of
\* None is "all", a startIso of None is null
rangeOf(daysInput, endMs) ==
    LET days == daysOf(daysInput)
        startMs == IF IsSome(days) THEN Some(endMs - Val(days) * DAY_MS) ELSE None
    IN [days |-> days, startMs |-> startMs, endMs |-> endMs,
        startIso |-> IF IsSome(startMs) THEN Some(IsoTs(Val(startMs))) ELSE None,
        endIso |-> IsoTs(endMs)]

\* Number.isFinite(x) && x > 0 ? x : fallback
positiveOr(x, fallback) ==
    IF IsSome(toFinite(x)) /\ Val(toFinite(x)) > 0 THEN Val(toFinite(x)) ELSE fallback

\* typeof x === "string" && x ? x : null
nonEmptyString(x) == IF x.k = "str" /\ x.s # "" THEN Some(x.s) ELSE None

\* Number.isFinite(x) ? x : fallback
finiteOr(x, fallback) == IF IsSome(toFinite(x)) THEN Val(toFinite(x)) ELSE fallback

\* the distinct truthy channels of the scanned sessions, sorted
channelOptions(sessionList) ==
    sortNames({Val(sessionList[i].channel) :
                  i \in {k \in 1..Len(sessionList) :
                            IsSome(sessionList[k].channel) /\ Val(sessionList[k].channel) # ""}})

\* the payload of one call.  endMs is the reading of Date.now() that opens the
\* call; now is the reading buildAlerts and generatedAt take once the scan
\* has finished.  The echoed stateDir and workspaceDir are left out.
collectOpenClawMetrics(fs, corpus, options, endMs, now) ==
    LET range == rangeOf(options.days, endMs)
        timelineLimit == positiveOr(options.timelineLimit, 240)
        filter == [agent |-> nonEmptyString(options.agent),
                   channel |-> nonEmptyString(options.channel)]
        memory == collectMemoryStats(corpus, finiteOr(options.memoryLimit, 100))
        sessionLimit == positiveOr(options.sessionLimit, 250)
        payload(scanned, aggregated, anomalies) ==
            [generatedAt |-> now,
             range |-> range,
             filters |-> [selected |-> filter,
                          options |-> [agents |-> scanned.agents,
                                       channels |-> channelOptions(scanned.sessions)]],
             summary |->
                 [sessionsScanned |-> Len(scanned.sessions),
                  sessionsInScope |-> Len(aggregated.filtered),
                  totalTokens |-> aggregated.totals.totalTokens,
                  totalCost |-> aggregated.totals.totalCost,
                  cacheReadSharePct |->
                      IF aggregated.totals.totalTokens > 0
                      THEN Rat(aggregated.totals.cacheRead * 100,
                               aggregated.totals.totalTokens)
                      ELSE Rat(0, 1),
                  errorRatePct |->
                      IF aggregated.messages.total > 0
                      THEN Rat(aggregated.messages.errors * 100, aggregated.messages.total)
                      ELSE Rat(0, 1),
                  avgLatencyMs |-> IF IsSome(aggregated.latency)
                                   THEN Some(Val(aggregated.latency).avgMs) ELSE None,
                  p95LatencyMs |-> IF IsSome(aggregated.latency)
                                   THEN Some(Val(aggregated.latency).p95Ms) ELSE None],
             totals |-> aggregated.totals,
             messages |-> aggregated.messages,
             latency |-> aggregated.latency,
             aggregates |-> aggregated.aggregates,
             sessions |-> sliceTo(aggregated.filtered, sessionLimit),
             memory |-> memory,
             anomalies |-> anomalies,
             alerts |-> buildAlerts(aggregated.totals, aggregated.messages,
                                    aggregated.filtered, memory, anomalies, now)]
        aggregate(scanned) ==
            Only({Only({payload(scanned, aggregated, anomalies) :
                          anomalies \in {buildAnomalies(aggregated.aggregates.daily,
                                                        aggregated.filtered,
                                                        aggregated.latency)}}) :
                     aggregated \in {aggregateSessions(scanned.sessions, filter)}})
    IN Only({aggregate(scanned) :
                scanned \in {collectSessionsFromState(fs, range, timelineLimit)}})

---------------------------------------------------------------------------
(* Bounds and inputs of the scan and of the collector *)

\* the longest time, in ms, the clock advances past COLLECT_NOW
MaxElapsedMs == 1

\* the first reading of the clock
COLLECT_NOW == 21 * DAY_MS
\* an update time exactly 14 days before COLLECT_NOW
STALE_EDGE == COLLECT_NOW - 14 * DAY_MS
\* the start of the window of a call made at COLLECT_NOW
WINDOW_EDGE == COLLECT_NOW - WINDOW_DAYS * DAY_MS

ToolUse(chars) == [Block("tool_use") EXCEPT !.name = Txt(chars)]

\* model A of provider p1 at the window's first instant: usage, cost, one tool
AtWindowEdge ==
    [Turn("assistant", WINDOW_EDGE) EXCEPT
        !.msgProvider = Str("p1"), !.msgModel = Str("A"),
        !.msgUsage = [UsageObj EXCEPT !.input = Num(5), !.output = Num(3),
            !.cost = [NoCostObj EXCEPT !.k = "obj", !.total = Num(2)]],
        !.content = ArrayContent(<<ToolUse(<<"r", "d">>)>>)]

\* a user turn shortly before COLLECT_NOW
UserBefore ==
    [Turn("user", COLLECT_NOW - 1000) EXCEPT !.content = StringContent(<<"h", "i">>)]

\* model B of provider p1 one millisecond after COLLECT_NOW
AfterNow ==
    [Turn("assistant", COLLECT_NOW + 1) EXCEPT
        !.msgProvider = Str("p1"), !.msgModel = Str("B"),
        !.msgUsage = [UsageObj EXCEPT !.output = Num(4)],
        !.msgCostTotal = Num(1)]

\* model A of provider p2, undated: the cost of AtWindowEdge with fewer
\* tokens, one tool called twice, an error stop reason
Undated ==
    [BaseLine EXCEPT !.role = Str("assistant"),
        !.recProvider = Str("p2"), !.recModel = Str("A"),
        !.recUsage = [UsageObj EXCEPT !.prompt_tokens = Num(2), !.completion_tokens = Num(1)],
        !.recCostTotal = Num(2), !.recStopReason = Str("Timeout"),
        !.content = ArrayContent(<<ToolUse(<<"w", "r">>), ToolUse(<<"w", "r">>)>>)]

\* model B of provider p2 five days before COLLECT_NOW: the dearest record
LongAgo ==
    [Turn("assistant", COLLECT_NOW - 5 * DAY_MS) EXCEPT
        !.msgProvider = Str("p2"), !.msgModel = Str("B"),
        !.msgUsage = [UsageObj EXCEPT !.input = Num(20)],
        !.msgCostTotal = Num(7)]

StoreEntry(label, channel, originProvider, updatedAt) ==
    [k |-> "obj", label |-> label, channel |-> channel, originProvider |-> originProvider,
     updatedAt |-> updatedAt]

\* the transcripts a file may hold, each with its mtime and its store entry
Transcripts ==
    [web |-> [lines |-> <<AtWindowEdge>>, mtimeMs |-> COLLECT_NOW - 2000,
              storeKey |-> "k-web",
              entry |-> StoreEntry(Str("w"), Str("web"), NoStr, Num(STALE_EDGE))],
     chat |-> [lines |-> <<UserBefore, AfterNow>>, mtimeMs |-> COLLECT_NOW - 1000,
               storeKey |-> "", entry |-> NoEntry],
     cli |-> [lines |-> <<Undated>>, mtimeMs |-> COLLECT_NOW - 3000,
              storeKey |-> "k-cli",
              entry |-> StoreEntry(NoStr, NoStr, Str("cli"), Num(STALE_EDGE + 1))],
     old |-> [lines |-> <<LongAgo, AtWindowEdge>>, mtimeMs |-> COLLECT_NOW - 20 * DAY_MS,
              storeKey |-> "", entry |-> NoEntry]]

TranscriptFile(agentId, id, t, fault) ==
    [agentId |-> agentId, fileName |-> FileName(id, ""), mtimeMs |-> t.mtimeMs,
     storeKey |-> t.storeKey, entry |-> t.entry, fault |-> fault, lines |-> t.lines]

\* what a place of the state directory may hold: nothing, or one of two
\* transcripts, readable or not
Place(agentId, id, t1, t2, fault) ==
    {{}} \cup {{TranscriptFile(agentId, id, t, f)} : t \in {t1, t2}, f \in {"none", fault}}

\* the state directories: three places under two agents
StateDirs ==
    {a \cup b \cup c :
        a \in Place("main", "s1", Transcripts.web, Transcripts.old, "stat"),
        b \in Place("main", "s2", Transcripts.chat, Transcripts.cli, "stream"),
        c \in Place("ops", "s1", Transcripts.cli, Transcripts.web, "stat")}

\* the state directories whose every file can be read
ReadableDirs == {fs \in StateDirs : \A f \in fs : f.fault = "none"}

\* the ranges of the calls that scan at COLLECT_NOW
ScanParams ==
    {[file |-> ParsedFile, range |-> rangeOf(d, COLLECT_NOW), timelineLimit |-> 2] :
        d \in {DaysAll, Num(WINDOW_DAYS)}}

---------------------------------------------------------------------------
(* SpecScan: collectSessionsFromState, one transcript file per step *)

InitScan ==
    /\ params \in ScanParams
    /\ consumed = <<>> /\ acc = createAcc /\ cur = [line |-> BlankLine, loc |-> NoLocals]
    /\ ppc = "off" /\ summary = None
    /\ files \in StateDirs
    /\ spc = "scanning"
    /\ sidx = 0
    /\ sessions = <<>>
    /\ FrozenCollect /\ FrozenPure /\ FrozenServer

\* the inner loop reaches the next file: it is parsed and its summary
\* pushed, or its failure is caught
ScanFile ==
    /\ spc = "scanning"
    /\ sidx < Len(scanOrder(files, listAgents(files)))
    /\ sessions' = scanFile(sessions, scanOrder(files, listAgents(files))[sidx + 1],
                            params.range, params.timelineLimit)
    /\ sidx' = sidx + 1
    /\ UNCHANGED <<files, spc, parseVars, collectVars, pureVars, serverVars>>

\* both loops are over: the list is sorted and returned
ScanEnd ==
    /\ spc = "scanning"
    /\ sidx = Len(scanOrder(files, listAgents(files)))
    /\ sessions' = sortSessions(sessions)
    /\ spc' = "done"
    /\ UNCHANGED <<files, sidx, parseVars, collectVars, pureVars, serverVars>>

NextScan == ScanFile \/ ScanEnd

SpecScan == InitScan /\ [][NextScan]_vars

---------------------------------------------------------------------------
(* Claims about the session scan, checked under SpecScan *)

\* the files the scan has reached so far, in order
ReachedFiles == SubSeq(scanOrder(files, listAgents(files)), 1, sidx)

ReadableFile(f) == f.fault = "none"

\* C2: a file whose parse fails is skipped and the scan goes on: at every
\* step the list holds the summaries of exactly the readable files reached so
\* far, and the list returned equals the one returned for the same directory
\* with the failing files absent.
C2_FileFailureIsolation ==
    /\ spc = "scanning" =>
          sessions = scanFiles(<<>>, SelectSeq(ReachedFiles, ReadableFile),
                               params.range, params.timelineLimit)
    /\ spc = "done" =>
          sessions = collectSessionsFromState({f \in files : ReadableFile(f)}, params.range,
                                              params.timelineLimit).sessions

\* a finished scan of three files whose second failed: the two others are
\* listed
C2_Witness ==
    /\ spc = "done"
    /\ Len(ReachedFiles) = 3
    /\ ReadableFile(ReachedFiles[1]) /\ ~ReadableFile(ReachedFiles[2])
    /\ ReadableFile(ReachedFiles[3])
    /\ Len(sessions) = 2
    /\ \E i \in 1..2 : sessions[i].totals.totalTokens > 0

---------------------------------------------------------------------------
(* SpecCollect: successive collectOpenClawMetrics calls over one unchanged *)
(* state directory, while the wall clock advances.  last is the latest     *)
(* finished call: its options, its two clock readings and its payload;     *)
(* last.prev is the call before it when that call had the same options.    *)

\* the options of a call: a window or none, an agent or a channel filter or
\* none, a session limit or none
Options(days, agent, channel, sessionLimit) ==
    [days |-> days, agent |-> agent, channel |-> channel, sessionLimit |-> sessionLimit,
     memoryLimit |-> NoVal, timelineLimit |-> Num(2)]

CallOptions ==
    { Options(DaysAll, NoStr, NoStr, Num(1)),
      Options(Num(WINDOW_DAYS), NoStr, NoStr, NoVal),
      Options(Num(WINDOW_DAYS), Str("main"), NoStr, Num(1)),
      Options(DaysAll, NoStr, Str("web"), NoVal) }

LastInstant == COLLECT_NOW + MaxElapsedMs

InitCollect ==
    /\ FrozenParse /\ FrozenPure /\ FrozenServer
    /\ files \in ReadableDirs
    /\ spc = "off" /\ sidx = 0 /\ sessions = <<>>
    /\ clock = COLLECT_NOW
    /\ last = NoCall

\* one call, from its first reading of the clock to its return
Collect ==
    /\ \E options \in CallOptions, now \in clock..LastInstant :
         /\ last' = [k |-> "call", options |-> options, endMs |-> clock, now |-> now,
                     payload |-> collectOpenClawMetrics(files, NoCorpus, options, clock, now),
                     prev |-> IF last.k = "call" /\ last.options = options
                              THEN [k |-> "call", endMs |-> last.endMs, now |-> last.now,
                                    payload |-> last.payload]
                              ELSE NoCall]
         /\ clock' = now
    /\ UNCHANGED <<parseVars, scanVars, pureVars, serverVars>>

\* time passes between two calls
Tick ==
    /\ clock < LastInstant
    /\ clock' = clock + 1
    /\ UNCHANGED <<last, parseVars, scanVars, pureVars, serverVars>>

NextCollect == Collect \/ Tick

SpecCollect == InitCollect /\ [][NextCollect]_vars

---------------------------------------------------------------------------
(* Claims about the collector, checked under SpecCollect *)

Called == last.k = "call"

\* the latest call repeats the options of the call before it
Repeated == Called /\ last.prev.k = "call"

\* the update time the summary of a file carries
UpdatedAtOf(f) ==
    IF f.entry.k = "obj" /\ f.entry.updatedAt.k = "num" THEN f.entry.updatedAt.v
    ELSE f.mtimeMs

\* the timestamps of the records of the directory
RecordTimes ==
    UNION {{Val(parseTimestampMs(f.lines[i])) :
               i \in {k \in 1..Len(f.lines) : IsSome(parseTimestampMs(f.lines[k]))}} :
           f \in files}

\* t lies in the trailing window of days (None for "all") that ends at endMs
InWindow(t, days, endMs) ==
    t <= endMs /\ (IsSome(days) => t >= endMs - Val(days) * DAY_MS)

\* no record lies in the window of one of the two calls and not of the other
WindowStable ==
    \A t \in RecordTimes :
        InWindow(t, last.payload.range.days, last.prev.endMs)
            <=> InWindow(t, last.payload.range.days, last.endMs)

\* no session is more than 14 days old at one of the two calls and not at the
\* other
StalenessStable ==
    \A f \in files :
        (last.prev.now - UpdatedAtOf(f) > 14 * DAY_MS)
            <=> (last.now - UpdatedAtOf(f) > 14 * DAY_MS)

\* C1 as claimed: two successive calls with the same options over unchanged
\* files return payloads that differ in generatedAt at most.
C1_IdempotentButGeneratedAt ==
    Repeated =>
        [last.prev.payload EXCEPT !.generatedAt = 0] = [last.payload EXCEPT !.generatedAt = 0]

\* a payload without its readings of the clock: generatedAt and the bounds of
\* the echoed range
Unclocked(p) == [p EXCEPT !.generatedAt = 0, !.range = [days |-> p.range.days]]

\* C1: two successive calls with the same options over unchanged files return
\* payloads that differ only in generatedAt and the bounds of the echoed range,
\* provided no record enters or leaves the window and no session crosses the
\* 14-day staleness threshold between the two calls.
C1_IdempotentWhileStable ==
    (Repeated /\ WindowStable /\ StalenessStable) =>
        Unclocked(last.prev.payload) = Unclocked(last.payload)

\* a call over a finite window repeated after the clock advanced: records
\* were counted, a session is listed, the echoed range moved
C1_Witness ==
    /\ Repeated /\ WindowStable /\ StalenessStable
    /\ last.endMs > last.prev.endMs
    /\ IsSome(last.payload.range.days)
    /\ last.payload.range # last.prev.payload.range
    /\ last.payload.summary.totalTokens > 0
    /\ last.payload.alerts # <<>>

\* C4: sessionsInScope never exceeds sessionsScanned; and a call over a finite
\* window reports no more sessions in scope and no more tokens than the call
\* with days = "all" over the same files at the same clock readings.
C4_MonotonicFiltering ==
    Called =>
        LET p == last.payload
            q == collectOpenClawMetrics(files, NoCorpus, [last.options EXCEPT !.days = DaysAll],
                                        last.endMs, last.now)
        IN /\ p.summary.sessionsInScope <= p.summary.sessionsScanned
           /\ IsSome(p.range.days) =>
                 /\ p.summary.sessionsInScope <= q.summary.sessionsInScope
                 /\ p.summary.totalTokens <= q.summary.totalTokens

\* a windowed call under an agent filter that kept some sessions out of scope
\* and some tokens out of the window
C4_Witness ==
    /\ Called /\ IsSome(last.payload.range.days)
    /\ last.payload.summary.sessionsInScope < last.payload.summary.sessionsScanned
    /\ last.payload.summary.totalTokens > 0
    /\ last.payload.summary.totalTokens
          < collectOpenClawMetrics(files, NoCorpus, [last.options EXCEPT !.days = DaysAll],
                                   last.endMs, last.now).summary.totalTokens

\* a row carries the totals the ranking order reads
HasTotals(row) == "totals" \in DOMAIN row

\* adjacent rows in the ranking order: cost descending, then tokens descending
RankedByCost(rows) ==
    \A i \in 1..Len(rows) - 1 :
        /\ HasTotals(rows[i]) /\ HasTotals(rows[i + 1])
        /\ rows[i].totals.totalCost >= rows[i + 1].totals.totalCost
        /\ rows[i].totals.totalCost = rows[i + 1].totals.totalCost =>
              rows[i].totals.totalTokens >= rows[i + 1].totals.totalTokens

RankedByCount(rows) == \A i \in 1..Len(rows) - 1 : rows[i].count >= rows[i + 1].count

InScopeFiles ==
    {f \in files :
        /\ f.fault = "none"
        /\ last.options.agent.k = "str" => f.agentId = last.options.agent.s
        /\ last.options.channel.k = "str" =>
              OrEmpty(channelOf(f.entry)) = last.options.channel.s}

SessionLimitOf(options) == IF options.sessionLimit.k = "num" THEN options.sessionLimit.v ELSE 250

\* the files whose summaries the payload lists
ListedFiles ==
    {f \in files : \E i \in 1..Len(last.payload.sessions) :
                      last.payload.sessions[i].id = <<f.agentId, f.fileName>>}

\* the cost the latest call found in a file
CostOf(f) ==
    parseSessionFile(f, last.payload.range, 2).totals.totalCost

\* C6 as claimed: the sessions list is in the ranking order, no in-scope
\* session left out of it costs more than a listed one, and it has at most
\* sessionLimit entries.
C6_TopSessionsByCost ==
    Called =>
        /\ RankedByCost(last.payload.sessions)
        /\ \A f \in InScopeFiles \ ListedFiles : \A g \in ListedFiles : CostOf(f) <= CostOf(g)
        /\ Len(last.payload.sessions) <= SessionLimitOf(last.options)

\* C6: the sessions list is the first sessionLimit in-scope sessions in order
\* of update time, latest first: it lists in-scope sessions only, each once,
\* no in-scope session left out of it was updated later than a listed one,
\* and it has at most sessionLimit entries.
C6_TopSessionsByUpdate ==
    Called =>
        /\ \A i \in 1..Len(last.payload.sessions) - 1 :
              last.payload.sessions[i].updatedAt >= last.payload.sessions[i + 1].updatedAt
        /\ ListedFiles \subseteq InScopeFiles
        /\ Cardinality(ListedFiles) = Len(last.payload.sessions)
        /\ Len(last.payload.sessions)
              = Min(SessionLimitOf(last.options), Cardinality(InScopeFiles))
        /\ \A f \in InScopeFiles \ ListedFiles :
              \A g \in ListedFiles : UpdatedAtOf(f) <= UpdatedAtOf(g)

\* a limit of one with two sessions in scope: the session listed is the one
\* updated last, and the one left out costs more
C6_Witness ==
    /\ Called
    /\ SessionLimitOf(last.options) = 1
    /\ Len(last.payload.sessions) = 1
    /\ \E f \in InScopeFiles \ ListedFiles :
          \E g \in ListedFiles : UpdatedAtOf(f) < UpdatedAtOf(g) /\ CostOf(f) > CostOf(g)

---------------------------------------------------------------------------
(* Claims about usage tuples and non-negativity, checked under Spec *)

PartsOf(u) == u.input + u.output + u.cacheRead + u.cacheWrite

\* C11 as claimed: the total of every usage tuple normalizeUsage produces, and
\* the totalTokens of the session totals accumulated from such tuples, is never
\* less than the sum of input, output, cacheRead and cacheWrite, whether or not
\* the record supplies an explicit total.
C11_TotalCoversParts ==
    /\ IsSome(cur.loc.usage) => Val(cur.loc.usage).total >= PartsOf(Val(cur.loc.usage))
    /\ acc.totals.totalTokens >= PartsOf(acc.totals)


NonNegativeTotals(t) ==
    /\ t.input >= 0 /\ t.output >= 0 /\ t.cacheRead >= 0 /\ t.cacheWrite >= 0
    /\ t.totalTokens >= 0 /\ t.totalCost >= 0 /\ t.inputCost >= 0 /\ t.outputCost >= 0
    /\ t.cacheReadCost >= 0 /\ t.cacheWriteCost >= 0 /\ t.missingCostEntries >= 0

NonNegativeCounts(m) ==
    /\ m.total >= 0 /\ m.user >= 0 /\ m.assistant >= 0
    /\ m.toolCalls >= 0 /\ m.toolResults >= 0 /\ m.errors >= 0

NonNegativeLatency(lat) ==
    IsSome(lat) =>
        /\ Val(lat).count >= 0 /\ Val(lat).avgMs.num >= 0 /\ Val(lat).p95Ms >= 0
        /\ Val(lat).minMs >= 0 /\ Val(lat).maxMs >= 0

\* C12 as claimed: after any sequence of records every count, token field and
\* cost field of the session is >= 0: the totals with their four cost
\* categories, the message counts, each daily bucket's tokens and cost, and
\* every latency sample and statistic.
C12_NonNegativity ==
    /\ NonNegativeTotals(acc.totals)
    /\ NonNegativeCounts(acc.messageCounts)
    /\ \A i \in 1..Len(acc.dailyMap) :
         acc.dailyMap[i].tokens >= 0 /\ acc.dailyMap[i].cost >= 0
    /\ \A i \in 1..Len(acc.latencyValues) : acc.latencyValues[i] >= 0
    /\ IsSome(summary) =>
         /\ NonNegativeTotals(Val(summary).totals)
         /\ NonNegativeLatency(Val(summary).latency)
         /\ \A i \in 1..Len(Val(summary).daily) :
              /\ Val(summary).daily[i].tokens >= 0 /\ Val(summary).daily[i].cost >= 0
              /\ NonNegativeLatency(Val(summary).daily[i].latency)

---------------------------------------------------------------------------
(* SpecSpike: buildAnomalies applied to a fleet daily series that grows by *)
(* one day per step.  The days carry tokens and no latency; the series is  *)
(* handed over in ascending or in descending date order.                   *)

\* the longest daily series
MaxDays == 5

\* a row of the fleet's daily series
DayRow(date, tokens, latency) ==
    [date |-> date, tokens |-> tokens, cost |-> 0, messages |-> 0, toolCalls |-> 0,
     errors |-> 0, latency |-> latency]

\* the first date of a series: the day of the collector's clock
FIRST_DAY == dayKeyFromMs(COLLECT_NOW)

SpikeTokens == {0, 1800, 3000, 5000, 6000, 6899, 6900}

\* four ordinary days: their mean is 1012.5
OrdinaryDays ==
    <<DayRow(FIRST_DAY, 1000, None), DayRow(FIRST_DAY + 1, 1100, None),
      DayRow(FIRST_DAY + 2, 900, None), DayRow(FIRST_DAY + 3, 1050, None)>>

\* four equal days
EqualDays ==
    [i \in 1..4 |-> DayRow(FIRST_DAY + i - 1, 1000, None)]

\* the dates a series can be extended with: the day after its last row when
\* it ascends, the day before when it descends
NextDates(daily) ==
    IF daily = <<>> THEN {FIRST_DAY}
    ELSE IF Len(daily) = 1 THEN {daily[1].date + 1, daily[1].date - 1}
    ELSE IF daily[2].date > daily[1].date THEN {daily[Len(daily)].date + 1}
    ELSE {daily[Len(daily)].date - 1}

AnomaliesOf(a) == buildAnomalies(a.daily, a.sessions, a.latency)

InitSpike ==
    /\ FrozenParse /\ FrozenScan /\ FrozenCollect /\ FrozenServer
    /\ fnArgs \in {[daily |-> d, sessions |-> <<>>, latency |-> None] : d \in {<<>>, OrdinaryDays, EqualDays}}
    /\ fnResult = AnomaliesOf(fnArgs)

\* the series has one more day, and the anomalies are built again
SpikeDay ==
    /\ Len(fnArgs.daily) < MaxDays
    /\ \E tokens \in SpikeTokens, date \in NextDates(fnArgs.daily) :
         fnArgs' = [fnArgs EXCEPT !.daily = Append(@, DayRow(date, tokens, None))]
    /\ fnResult' = AnomaliesOf(fnArgs')
    /\ UNCHANGED <<parseVars, scanVars, collectVars, serverVars>>

NextSpike == SpikeDay

SpecSpike == InitSpike /\ [][NextSpike]_vars

\* the index of the most recent day of a non-empty series
MostRecent(daily) ==
    CHOOSE i \in 1..Len(daily) : \A j \in 1..Len(daily) : daily[j].date <= daily[i].date

\* C13: a token spike is reported exactly when the series has at least 4
\* days, at least 3 of the days before the most recent one have nonzero
\* tokens, the most recent day has more than 5000 tokens, and those tokens
\* are at least 2.3 times the mean of the nonzero earlier days.  The entry
\* names the most recent day, and there is at most one entry.
C13_TokenSpike ==
    LET daily == fnArgs.daily
        spikes == fnResult.tokenSpikes
        r == MostRecent(daily)
        earlier == {j \in 1..Len(daily) : j # r /\ daily[j].tokens # 0}
        sumEarlier == SumSeq([j \in 1..Len(daily) |->
                                IF j \in earlier THEN daily[j].tokens ELSE 0])
        fires == /\ Len(daily) >= 4
                 /\ Cardinality(earlier) >= 3
                 /\ daily[r].tokens > 5000
                 /\ 10 * daily[r].tokens * Cardinality(earlier) >= 23 * sumEarlier
    IN IF daily = <<>> THEN spikes = <<>>
       ELSE /\ Len(spikes) <= 1
            /\ fires <=> Len(spikes) = 1
            /\ Len(spikes) = 1 =>
                 spikes[1].date = daily[r].date /\ spikes[1].tokens = daily[r].tokens

\* the days 1000, 1100, 900, 1050, 6000: a spike on the last day, at 5.93
\* times the baseline of 1012.5
C13_Witness ==
    /\ [i \in 1..Len(fnArgs.daily) |-> fnArgs.daily[i].tokens] = <<1000, 1100, 900, 1050, 6000>>
    /\ Len(fnResult.tokenSpikes) = 1
    /\ fnResult.tokenSpikes[1].date = FIRST_DAY + 4
    /\ fnResult.tokenSpikes[1].baselineTokens = Rat(2025, 2)
    /\ toFixed(fnResult.tokenSpikes[1].ratio, 100) = 593

---------------------------------------------------------------------------
(* SpecJitter: buildAnomalies applied to a daily series whose days carry a *)
(* latency or none, and to a fleet latency that is fixed from the start.   *)

\* the statistics of one sample of ms milliseconds
OneSample(ms) ==
    [count |-> 1, avgMs |-> [num |-> ms, den |-> 1], p95Ms |-> ms, minMs |-> ms, maxMs |-> ms]

\* the latency of a day: none, or an average of 31, 66 or 67 ms.  The days
\* 31, 31, 31, 67 have mean 40 and sample deviation 18: CV = 0.45.
DayLatencies == {None} \cup {Some(OneSample(ms)) : ms \in {31, 66, 67}}

\* the fleet latency: none, all zero, or an average of 100 ms with a p95 just
\* below or at 2.2 times it
FleetLatencies ==
    {None, Some(OneSample(0))}
    \cup {Some([count |-> 4, avgMs |-> [num |-> 400, den |-> 4], p95Ms |-> p, minMs |-> 50,
                maxMs |-> p]) : p \in {219, 220}}

InitJitter ==
    /\ FrozenParse /\ FrozenScan /\ FrozenCollect /\ FrozenServer
    /\ fnArgs \in {[daily |-> <<>>, sessions |-> <<>>, latency |-> l] : l \in FleetLatencies}
    /\ fnResult = AnomaliesOf(fnArgs)

\* the series has one more day, and the anomalies are built again
JitterDay ==
    /\ Len(fnArgs.daily) < MaxDays
    /\ \E latency \in DayLatencies :
         fnArgs' = [fnArgs EXCEPT
                      !.daily = Append(@, DayRow(FIRST_DAY + Len(@), 0, latency))]
    /\ fnResult' = AnomaliesOf(fnArgs')
    /\ UNCHANGED <<parseVars, scanVars, collectVars, serverVars>>

NextJitter == JitterDay

SpecJitter == InitJitter /\ [][NextJitter]_vars

\* the whole-number daily averages of a series, a 0 for a day without one
DailyAverages(daily) ==
    [i \in 1..Len(daily) |->
        IF IsSome(daily[i].latency) THEN Val(daily[i].latency).avgMs.num ELSE 0]

\* C14: latency jitter is reported exactly when at least 4 days have an
\* average latency and either the coefficient of variation of those averages
\* (sample standard deviation, n - 1, over the mean) is at least 0.45, or the
\* fleet's p95 / avg is at least 2.2 with both positive.  With n averages of
\* sum S and sum of squares Q, CV^2 = n (n Q - S^2) / ((n - 1) S^2).
C14_LatencyJitter ==
    LET daily == fnArgs.daily
        fleet == fnArgs.latency
        jitter == fnResult.latencyJitter
        withAvg == {i \in 1..Len(daily) : IsSome(daily[i].latency)}
        n == Cardinality(withAvg)
        avgs == DailyAverages(daily)
        S == SumSeq(avgs)
        Q == SumSeq([i \in 1..Len(daily) |-> avgs[i] * avgs[i]])
        cvHigh == S > 0 /\ 400 * n * (n * Q - S * S) >= 81 * (n - 1) * S * S
        tailHigh == /\ IsSome(fleet)
                    /\ Val(fleet).avgMs.num > 0 /\ Val(fleet).p95Ms > 0
                    /\ 10 * Val(fleet).p95Ms * Val(fleet).avgMs.den >= 22 * Val(fleet).avgMs.num
    IN /\ IsSome(jitter) <=> (n >= 4 /\ (cvHigh \/ tailHigh))
       /\ IsSome(jitter) =>
            [i \in 1..Len(Val(jitter).days) |-> Val(jitter).days[i].date]
              = SelectSeq([i \in 1..Len(daily) |-> daily[i].date],
                          LAMBDA d : \E i \in withAvg : daily[i].date = d)

\* the daily averages 31, 31, 31, 67 under a fleet tail below 2.2: jitter is
\* reported at a coefficient of variation of exactly 0.45
C14_Witness ==
    /\ DailyAverages(fnArgs.daily) = <<31, 31, 31, 67>>
    /\ fnArgs.latency # None /\ Val(fnArgs.latency).p95Ms = 219
    /\ IsSome(fnResult.latencyJitter)
    /\ Val(fnResult.latencyJitter).coefficientOfVariationSquared = Rat(81, 400)

---------------------------------------------------------------------------
(* SpecLatency: computeLatencyStats applied to a sample list that grows by *)
(* one sample per step.  A sample is 10 ms above the largest so far, or,   *)
(* out of order, a repeat of the first sample or 5 ms below the largest.   *)

\* the longest sample list, and the most samples taken out of order
MaxSamples == 21
MaxUnordered == 1

\* the samples that are not above their predecessor
Unordered(values) == Cardinality({i \in 2..Len(values) : values[i] <= values[i - 1]})

RECURSIVE MaxOf(_)
MaxOf(values) ==
    IF Len(values) = 1 THEN values[1]
    ELSE Max(values[1], MaxOf(Tail(values)))

NextSamples(values) ==
    IF values = <<>> THEN {10}
    ELSE {MaxOf(values) + 10}
         \cup (IF Unordered(values) < MaxUnordered
               THEN {values[1], MaxOf(values) - 5} ELSE {})

InitLatency ==
    /\ FrozenParse /\ FrozenScan /\ FrozenCollect /\ FrozenServer
    /\ fnArgs = [values |-> <<>>]
    /\ fnResult = computeLatencyStats(fnArgs.values)

\* one more sample, and the statistics are computed again
LatencySample ==
    /\ Len(fnArgs.values) < MaxSamples
    /\ \E ms \in NextSamples(fnArgs.values) :
         fnArgs' = [fnArgs EXCEPT !.values = Append(@, ms)]
    /\ fnResult' = computeLatencyStats(fnArgs'.values)
    /\ UNCHANGED <<parseVars, scanVars, collectVars, serverVars>>

NextLatency == LatencySample

SpecLatency == InitLatency /\ [][NextLatency]_vars

\* v is the element at index k (from 0) of the samples sorted ascending
AtSortedIndex(values, k, v) ==
    /\ \E i \in 1..Len(values) : values[i] = v
    /\ Cardinality({i \in 1..Len(values) : values[i] < v}) <= k
    /\ k < Cardinality({i \in 1..Len(values) : values[i] <= v})

\* C15: for n >= 1 samples the statistics have count = n and p95Ms equal to
\* the element at index floor(0.95 n), capped at n - 1, of the samples sorted
\* ascending, with minMs <= p95Ms <= maxMs; minMs and maxMs are the least and
\* the greatest sample.  No sample gives no statistics.
C15_LatencyPercentile ==
    LET values == fnArgs.values
        n == Len(values)
        k == IF (95 * n) \div 100 > n - 1 THEN n - 1 ELSE (95 * n) \div 100
    IN IF n = 0 THEN fnResult = None
       ELSE /\ IsSome(fnResult)
            /\ Val(fnResult).count = n
            /\ AtSortedIndex(values, k, Val(fnResult).p95Ms)
            /\ AtSortedIndex(values, 0, Val(fnResult).minMs)
            /\ AtSortedIndex(values, n - 1, Val(fnResult).maxMs)
            /\ Val(fnResult).minMs <= Val(fnResult).p95Ms
            /\ Val(fnResult).p95Ms <= Val(fnResult).maxMs

\* the samples 10, 20, ..., 100: p95 is 100
C15_Witness ==
    /\ fnArgs.values = [i \in 1..10 |-> 10 * i]
    /\ Val(fnResult).p95Ms = 100
    /\ Val(fnResult).count = 10

---------------------------------------------------------------------------
(* SpecAlerts: buildAlerts applied once to arguments drawn from the values *)
(* on either side of each alert's threshold.                               *)

\* message counts: none, an error rate of 5%, one just below
AlertMessages ==
    {[createFleet.messages EXCEPT !.total = m[1], !.errors = m[2]] :
        m \in {<<0, 0>>, <<20, 1>>, <<21, 1>>}}

\* totals: none, 5000 and 5001 tokens without cache reads, 6000 tokens with
\* a cache-read share of 5% and one just below
AlertTotals ==
    {[createTotals EXCEPT !.totalTokens = t[1], !.cacheRead = t[2]] :
        t \in {<<0, 0>>, <<5000, 0>>, <<5001, 0>>, <<6000, 300>>, <<6000, 299>>}}

\* sessions, as far as buildAlerts reads them: none, one updated now, one
\* updated exactly 14 days ago, one updated a millisecond earlier, two such
AlertSessions ==
    {<<>>, <<[updatedAt |-> COLLECT_NOW]>>, <<[updatedAt |-> STALE_EDGE]>>,
     <<[updatedAt |-> STALE_EDGE - 1]>>,
     <<[updatedAt |-> STALE_EDGE - 1], [updatedAt |-> COLLECT_NOW - 20 * DAY_MS]>>}

\* the corpus: no directory, 1000 files, 1001 files
AlertMemories ==
    {NoMemory} \cup {[NoMemory EXCEPT !.exists = TRUE, !.fileCount = n] : n \in {1000, 1001}}

\* anomalies: no spike or the one of the days 1000, 1100, 900, 1050, 6000; no
\* jitter or jitter; no, one or two switching sessions
AlertAnomalies ==
    {[tokenSpikes |-> spikes, latencyJitter |-> jitter, modelSwitching |-> switching] :
        spikes \in {<<>>, tokenSpikesOf(Append(OrdinaryDays, DayRow(FIRST_DAY + 4, 6000, None)))},
        jitter \in {None, Some([coefficientOfVariationSquared |-> Rat(81, 400),
                                globalP95ToAvgRatio |-> Rat(0, 1), days |-> <<>>])},
        switching \in {<<>>, <<[sessionId |-> "s1", switches |-> 1]>>,
                       <<[sessionId |-> "s1", switches |-> 2],
                         [sessionId |-> "s2", switches |-> 1]>>}}

InitAlerts ==
    /\ FrozenParse /\ FrozenScan /\ FrozenCollect /\ FrozenServer
    /\ fnArgs \in [totals : AlertTotals, messages : AlertMessages, sessions : AlertSessions,
                   memory : AlertMemories, anomalies : AlertAnomalies, now : {COLLECT_NOW}]
    /\ fnResult = NoCall

\* the alerts are built
BuildAlerts ==
    /\ fnResult = NoCall
    /\ fnResult' = [k |-> "alerts",
                    alerts |-> buildAlerts(fnArgs.totals, fnArgs.messages, fnArgs.sessions,
                                           fnArgs.memory, fnArgs.anomalies, fnArgs.now)]
    /\ UNCHANGED <<fnArgs, parseVars, scanVars, collectVars, serverVars>>

NextAlerts == BuildAlerts

SpecAlerts == InitAlerts /\ [][NextAlerts]_vars

\* the title, when its condition holds
TitleIf(condition, title) == IF condition THEN <<title>> ELSE <<>>

---------------------------------------------------------------------------
(* SpecTimeline: parseSessionFile reading dated turns in any order, under  *)
(* a timeline limit of 1 or 2                                              *)

\* the longest transcript of dated turns
MaxTurns == 4

DatedTurns ==
    {Turn("user", T_MID), Turn("user", T_LATE), Turn("assistant", T_START),
     Turn("assistant", T_MID), Turn("assistant", T_LATE), Turn("assistant", T_END)}

TimelineParams ==
    {[file |-> ParsedFile, range |-> AllRange, timelineLimit |-> n] : n \in {1, 2}}

InitTimeline ==
    /\ params \in TimelineParams
    /\ consumed = <<>>
    /\ acc = createAcc
    /\ cur = [line |-> BlankLine, loc |-> NoLocals]
    /\ ppc = "reading"
    /\ summary = None
    /\ FrozenScan /\ FrozenCollect /\ FrozenPure /\ FrozenServer

\* the for-await loop takes the next line of the stream, a dated turn
ParseTurn ==
    /\ ppc = "reading"
    /\ Len(consumed) < MaxTurns
    /\ \E line \in DatedTurns :
         LET r == ReadLine(acc, line, params.range)
         IN /\ consumed' = Append(consumed, line)
            /\ acc' = r.acc
            /\ cur' = [line |-> line, loc |-> r.loc]
    /\ UNCHANGED <<params, ppc, summary, scanVars, collectVars, pureVars, serverVars>>

NextTimeline == ParseTurn \/ ParseEnd

SpecTimeline == InitTimeline /\ [][NextTimeline]_vars

HasRole(l) == l.role.k = "str" /\ l.role.s \in ROLES

\* the timestamps of the events recorded for the lines: one per in-range
\* record with a role and a timestamp
EventTimes(lines, rng) ==
    LET recorded == SelectSeq(FoldedLines(lines, rng),
                              LAMBDA l : HasRole(l) /\ LineTimestamp(l) # None)
    IN [i \in 1..Len(recorded) |-> Val(LineTimestamp(recorded[i]))]

\* the start times of the spans recorded for the lines: one per dated
\* assistant turn that follows a dated user turn, starting at the earlier of
\* the two
SpanStarts(lines, rng) ==
    LET folded == FoldedLines(lines, rng)
        dated(i) == LineTimestamp(folded[i]) # None
        users(i) == {j \in 1..i : folded[j].role = Str("user") /\ dated(j)}
        lastUser(i) == Val(LineTimestamp(folded[CHOOSE j \in users(i) :
                                                    \A h \in users(i) : h <= j]))
        spans == {i \in 1..Len(folded) : IsAssistant(folded[i]) /\ dated(i) /\ users(i) # {}}
        starts == [i \in 1..Len(folded) |->
                     IF i \in spans
                     THEN <<Min(lastUser(i), Val(LineTimestamp(folded[i])))>> ELSE <<>>]
        flat[i \in 0..Len(folded)] == IF i = 0 THEN <<>> ELSE flat[i - 1] \o starts[i]
    IN flat[Len(folded)]

Occurrences(s, x) == Cardinality({i \in 1..Len(s) : s[i] = x})

\* kept holds at most n entries, ascending, and they are the n latest of all:
\* what is left out is no later than anything kept
LatestOf(kept, all, n) ==
    /\ Len(kept) = Min(n, Len(all))
    /\ \A i \in 1..Len(kept) - 1 : kept[i] <= kept[i + 1]
    /\ \A i \in 1..Len(all) :
         /\ Occurrences(kept, all[i]) <= Occurrences(all, all[i])
         /\ Occurrences(kept, all[i]) < Occurrences(all, all[i])
              => \A j \in 1..Len(kept) : all[i] <= kept[j]
    /\ \A j \in 1..Len(kept) : Occurrences(all, kept[j]) > 0

\* C17: whatever the order of the records' timestamps, the timeline and the
\* waterfall of the summary hold at most timelineLimit entries, ascending by
\* timestamp and by start time, and when more were recorded they are the
\* latest timelineLimit of them.
C17_BoundedTimeline ==
    ppc = "done" =>
        LET s == Val(summary)
        IN /\ LatestOf([i \in 1..Len(s.timeline) |-> s.timeline[i].timestamp],
                       EventTimes(consumed, params.range), params.timelineLimit)
           /\ LatestOf([i \in 1..Len(s.waterfall) |-> s.waterfall[i].startTs],
                       SpanStarts(consumed, params.range), params.timelineLimit)

\* a user turn and three assistant turns, the latest one read before the two
\* others, under a limit of 2: the timeline and the waterfall keep the two
\* latest entries
C17_Witness ==
    /\ ppc = "done"
    /\ params.timelineLimit = 2
    /\ consumed = <<Turn("user", T_MID), Turn("assistant", T_END),
                    Turn("assistant", T_START), Turn("assistant", T_LATE)>>
    /\ [i \in 1..Len(Val(summary).timeline) |-> Val(summary).timeline[i].timestamp]
         = <<T_LATE, T_END>>
    /\ [i \in 1..Len(Val(summary).waterfall) |-> Val(summary).waterfall[i].startTs]
         = <<T_MID, T_MID>>

---------------------------------------------------------------------------
(* Claims about range filtering, checked under Spec *)

\* the record just read is dated outside the range
ReadOutside ==
    /\ IsRecordLine(cur'.line)
    /\ LineTimestamp(cur'.line) # None
    /\ ~LineInRange(cur'.line, params.range)

\* a record dated outside [startMs, endMs] leaves every accumulator as it was
OutsideChangesNothing == LineRead /\ ReadOutside => acc' = acc

\* a record with no timestamp is folded under every range
UndatedIsFolded ==
    (LineRead /\ IsRecordLine(cur'.line) /\ LineTimestamp(cur'.line) = None)
        => cur'.loc.inRange

\* the range is the one collectOpenClawMetrics builds for days = "all"
UnderAll(rng) ==
    /\ rng.startMs = rangeOf(DaysAll, rng.endMs).startMs
    /\ rng.endMs = rangeOf(DaysAll, rng.endMs).endMs

\* under the range of days = "all" every record is folded
AllExcludesNothing ==
    (LineRead /\ IsRecordLine(cur'.line) /\ UnderAll(params.range)) => cur'.loc.inRange

\* C18 as claimed: a record dated outside the range changes no accumulator, a
\* record without a timestamp is folded under every range, and under
\* days = "all" no record is excluded.
C18_RangeFiltering ==
    [][OutsideChangesNothing /\ UndatedIsFolded /\ AllExcludesNothing]_vars

\* the first two parts alone: these hold
OutsideAndUndated == [][OutsideChangesNothing /\ UndatedIsFolded]_vars

---------------------------------------------------------------------------
(* The metadata join: buildStoreIndex and resolveSessionMeta (lines        *)
(* 332-367).  The store is the sequence Object.entries(store) yields: each *)
(* item has its store key and, when its value is an object, the           *)
(* sessionFile and sessionId it is indexed by and the fields the summary   *)
(* reads.  A sessionFile is a path: a directory and a file name.           *)

NoPath == [k |-> "absent", dir |-> "", name |-> FileName("", "")]
BlankPath == [k |-> "blank", dir |-> "", name |-> FileName("", "")]
Path(dir, name) == [k |-> "path", dir |-> dir, name |-> name]

\* path.basename(sessionFile)
basename(p) == p.name

\* typeof x === "string" && x.trim() !== "", for a sessionFile and a sessionId
isNamedPath(p) == p.k = "path"
isNamedId(x) == x.k = "str" /\ x.s # "" /\ x.s # " "

StoreItem(key, sessionFile, sessionId, entry) ==
    [key |-> key, sessionFile |-> sessionFile, sessionId |-> sessionId, entry |-> entry]

\* buildStoreIndex: byFileName.set(...) replaces an earlier item of the same
\* file name; bySessionId collects the items of a session id in store order
RECURSIVE indexStore(_, _)
indexStore(index, store) ==
    IF store = <<>> THEN index
    ELSE LET item == store[1]
             meta == [key |-> Some(item.key), entry |-> item.entry]
             byFileName ==
                 IF isNamedPath(item.sessionFile)
                 THEN MapSet(index.byFileName,
                             [key |-> basename(item.sessionFile), meta |-> meta])
                 ELSE index.byFileName
             listed == IF MapHas(index.bySessionId, item.sessionId.s)
                       THEN MapGet(index.bySessionId, item.sessionId.s).list ELSE <<>>
             bySessionId ==
                 IF isNamedId(item.sessionId)
                 THEN MapSet(index.bySessionId,
                             [key |-> item.sessionId.s, list |-> Append(listed, meta)])
                 ELSE index.bySessionId
         IN IF item.entry.k # "obj" THEN indexStore(index, Tail(store))
            ELSE indexStore([byFileName |-> byFileName, bySessionId |-> bySessionId],
                            Tail(store))

buildStoreIndex(store) == indexStore([byFileName |-> <<>>, bySessionId |-> <<>>], store)

\* a mutant of resolveSessionMeta: the session id is looked up first
resolveSessionMetaIdFirst(fileName, derivedSessionId, storeIndex) ==
    IF MapHas(storeIndex.bySessionId, derivedSessionId)
    THEN MapGet(storeIndex.bySessionId, derivedSessionId).list[1]
    ELSE IF MapHas(storeIndex.byFileName, fileName)
    THEN MapGet(storeIndex.byFileName, fileName).meta
    ELSE [key |-> None, entry |-> NoEntry]

\* resolveSessionMeta(fileName, derivedSessionId, storeIndex)
resolveSessionMeta(fileName, derivedSessionId, storeIndex) ==
    IF MapHas(storeIndex.byFileName, fileName)
    THEN MapGet(storeIndex.byFileName, fileName).meta
    ELSE IF MapHas(storeIndex.bySessionId, derivedSessionId)
            /\ Len(MapGet(storeIndex.bySessionId, derivedSessionId).list) > 0
    THEN MapGet(storeIndex.bySessionId, derivedSessionId).list[1]
    ELSE [key |-> None, entry |-> NoEntry]

\* lines 380-383 of parseSessionFile: the file with the entry and the store
\* key the join finds for it
joinedFile(file, store) ==
    LET ids == normalizeSessionIdFromFileName(file.fileName)
        meta == resolveSessionMeta(file.fileName, ids.sessionId, buildStoreIndex(store))
    IN [file EXCEPT !.entry = meta.entry,
                    !.storeKey = IF IsSome(meta.key) THEN Val(meta.key) ELSE ""]

---------------------------------------------------------------------------
(* SpecJoin: parseSessionFile applied to an empty transcript whose agent   *)
(* store grows by one item per step                                        *)

\* the most items of a store
MaxItems == 3

\* two items filed under the transcript s1.jsonl (in different directories),
\* two under the session id s1, one whose value is no object, one with a
\* blank sessionFile and sessionId
StoreItems ==
    { StoreItem("k1", Path("/a", FileName("s1", "")), NoStr,
                StoreEntry(Str("one"), Str("web"), NoStr, NoVal)),
      StoreItem("k2", Path("/b", FileName("s1", "")), Str("s9"),
                StoreEntry(Str("two"), NoStr, Str("cli"), NoVal)),
      StoreItem("k3", NoPath, Str("s1"), StoreEntry(Str("three"), Str("ops"), NoStr, NoVal)),
      StoreItem("k4", NoPath, Str("s1"), StoreEntry(NoStr, NoStr, NoStr, NoVal)),
      StoreItem("k5", NoPath, NoStr, NoEntry),
      StoreItem("k6", BlankPath, Str(" "), StoreEntry(Str("six"), NoStr, NoStr, NoVal)) }

\* the transcripts s1.jsonl, s1-topic-t.jsonl and s2.jsonl of agent main
JoinedFiles ==
    {[ParsedFile EXCEPT !.fileName = n] :
        n \in {FileName("s1", ""), FileName("s1", "t"), FileName("s2", "")}}

SummaryOf(a) == parseSessionFile(joinedFile(a.file, a.store), AllRange, 2)

InitJoin ==
    /\ FrozenParse /\ FrozenScan /\ FrozenCollect /\ FrozenServer
    /\ fnArgs \in {[store |-> <<>>, file |-> f] : f \in JoinedFiles}
    /\ fnResult = SummaryOf(fnArgs)

\* the store has one more item, and the file is parsed again
StoreGrows ==
    /\ Len(fnArgs.store) < MaxItems
    /\ \E item \in StoreItems : fnArgs' = [fnArgs EXCEPT !.store = Append(@, item)]
    /\ fnResult' = SummaryOf(fnArgs')
    /\ UNCHANGED <<parseVars, scanVars, collectVars, serverVars>>

NextJoin == StoreGrows

SpecJoin == InitJoin /\ [][NextJoin]_vars

\* the items of the store filed under a file name, and under a session id
FiledByName(store, fileName) ==
    {i \in 1..Len(store) :
        /\ store[i].entry.k = "obj"
        /\ store[i].sessionFile.k = "path" /\ store[i].sessionFile.name = fileName}

FiledById(store, sessionId) ==
    {i \in 1..Len(store) :
        /\ store[i].entry.k = "obj"
        /\ store[i].sessionId = Str(sessionId)}

\* the summary carries the key, label and channel of store item i
JoinedTo(s, item) ==
    /\ s.key = <<"store", item.key>>
    /\ s.label = (IF item.entry.label.k = "str" THEN Some(item.entry.label.s) ELSE None)
    /\ s.channel = (IF item.entry.channel.k = "str" THEN Some(item.entry.channel.s)
                    ELSE IF item.entry.originProvider.k = "str"
                    THEN Some(item.entry.originProvider.s) ELSE None)

Unjoined(s, file) ==
    /\ s.key = <<"agent", file.agentId, file.fileName>>
    /\ s.label = None /\ s.channel = None

\* C19 as claimed: the metadata is the store item matched by file name if
\* there is one, else the item matched by the derived session id; of several
\* items matching the same lookup the first in store order wins; with no match
\* the session is reported with no label, no channel and the key
\* agent:<agentId>:<stem>.
C19_FirstMatchWins ==
    LET store == fnArgs.store
        file == fnArgs.file
        byName == FiledByName(store, file.fileName)
        byId == FiledById(store, file.fileName.id)
    IN IF byName # {} THEN JoinedTo(fnResult, store[Least(byName)])
       ELSE IF byId # {} THEN JoinedTo(fnResult, store[Least(byId)])
       ELSE Unjoined(fnResult, file)

\* the join as the index resolves it: of several items filed under the same
\* file name the latest wins, of several under the same session id the first
JoinAsIndexed ==
    LET store == fnArgs.store
        file == fnArgs.file
        byName == FiledByName(store, file.fileName)
        byId == FiledById(store, file.fileName.id)
    IN IF byName # {} THEN JoinedTo(fnResult, store[Greatest(byName)])
       ELSE IF byId # {} THEN JoinedTo(fnResult, store[Least(byId)])
       ELSE Unjoined(fnResult, file)

---------------------------------------------------------------------------
(* SpecLimits: collectOpenClawMetrics called again and again over one      *)
(* state directory and one workspace, each call with one of the three      *)
(* limits supplied anew (lines 1342-1361, 884)                             *)

\* the files of the memory directory
CorpusFiles == 12

\* the memory directory: CorpusFiles files over three days, not in the order
\* of their mtimes
CorpusRows ==
    [i \in 1..CorpusFiles |->
        CorpusFile(i, "md", i, COLLECT_NOW - ((i * 5) % CorpusFiles) * (DAY_MS \div 4),
                   <<Word(i, 4)>>)]

\* two sessions, each with two dated turns
LimitsDir ==
    {TranscriptFile("main", "s1", Transcripts.old, "none"),
     TranscriptFile("ops", "s1", Transcripts.old, "none")}

\* what a caller may supply as a limit: nothing, a value that is no finite
\* number, a negative number, zero, one, eleven
SuppliedLimits == {NoVal, Junk, Num(-1), Num(0), Num(1), Num(11)}

LimitOptions(sessionLimit, memoryLimit, timelineLimit) ==
    [Options(DaysAll, NoStr, NoStr, sessionLimit) EXCEPT
        !.memoryLimit = memoryLimit, !.timelineLimit = timelineLimit]

PayloadOf(a) == collectOpenClawMetrics(a.fs, a.corpus, a.options, COLLECT_NOW, COLLECT_NOW)

InitLimits ==
    /\ FrozenParse /\ FrozenScan /\ FrozenCollect /\ FrozenServer
    /\ fnArgs \in {[fs |-> LimitsDir, corpus |-> c,
                    options |-> LimitOptions(NoVal, NoVal, NoVal)] :
                      c \in {NoCorpus, Corpus(CorpusRows)}}
    /\ fnResult = PayloadOf(fnArgs)

\* a call with another session limit
SupplySessionLimit ==
    /\ \E x \in SuppliedLimits : fnArgs' = [fnArgs EXCEPT !.options.sessionLimit = x]
    /\ fnResult' = PayloadOf(fnArgs')
    /\ UNCHANGED <<parseVars, scanVars, collectVars, serverVars>>

\* a call with another memory limit
SupplyMemoryLimit ==
    /\ \E x \in SuppliedLimits : fnArgs' = [fnArgs EXCEPT !.options.memoryLimit = x]
    /\ fnResult' = PayloadOf(fnArgs')
    /\ UNCHANGED <<parseVars, scanVars, collectVars, serverVars>>

\* a call with another timeline limit
SupplyTimelineLimit ==
    /\ \E x \in SuppliedLimits : fnArgs' = [fnArgs EXCEPT !.options.timelineLimit = x]
    /\ fnResult' = PayloadOf(fnArgs')
    /\ UNCHANGED <<parseVars, scanVars, collectVars, serverVars>>

NextLimits == SupplySessionLimit \/ SupplyMemoryLimit \/ SupplyTimelineLimit

SpecLimits == InitLimits /\ [][NextLimits]_vars

NotFinite(x) == ~IsSome(toFinite(x))
Negative(x) == IsSome(toFinite(x)) /\ Val(toFinite(x)) < 0

\* C20 as claimed: a limit supplied as a non-finite or a negative value acts
\* on the payload as that limit's default does: 250 for sessionLimit, 100 for
\* memoryLimit, 240 for timelineLimit.
C20_LimitsFallBack ==
    LET fallBack(x, default) == IF NotFinite(x) \/ Negative(x) THEN Num(default) ELSE x
        o == fnArgs.options
    IN fnResult = PayloadOf([fnArgs EXCEPT
           !.options = LimitOptions(fallBack(o.sessionLimit, 250),
                                    fallBack(o.memoryLimit, 100),
                                    fallBack(o.timelineLimit, 240))])

\* the limits as the calls coerce them: a non-finite limit acts as its
\* default, a negative sessionLimit or timelineLimit too, but a negative
\* memoryLimit acts as 10
LimitsAsCoerced ==
    LET fallBack(x, default) == IF NotFinite(x) \/ Negative(x) THEN Num(default) ELSE x
        o == fnArgs.options
    IN fnResult = PayloadOf([fnArgs EXCEPT
           !.options = LimitOptions(fallBack(o.sessionLimit, 250),
                                    IF NotFinite(o.memoryLimit) THEN Num(100)
                                    ELSE IF Negative(o.memoryLimit) THEN Num(10)
                                    ELSE o.memoryLimit,
                                    fallBack(o.timelineLimit, 240))])

\* a call whose limits all take effect: one session of two, one event of two,
\* eleven files of CorpusFiles
LimitsTakeEffect ==
    /\ fnArgs.corpus.exists
    /\ Len(fnResult.sessions) = 1 /\ fnResult.summary.sessionsInScope = 2
    /\ Len(fnResult.sessions[1].timeline) = 1
    /\ Len(fnResult.memory.files) = 11 /\ fnResult.memory.fileCount = CorpusFiles

---------------------------------------------------------------------------
(* SpecCorpus: collectMemoryStats applied to a memory directory that gains *)
(* one file per step, under a memory limit that changes between calls      *)
(* (lines 789-890)                                                         *)

\* the most files added to the directory the behaviour starts from
MaxAdded == 3

\* ten markdown files over three days, two words each, twenty words in all
TenFiles ==
    [i \in 1..10 |->
        CorpusFile(i, "md", i, COLLECT_NOW - DAY_MS - ((i * 3) % 10) * (DAY_MS \div 4),
                   <<Word(2 * i - 1, 4), Word(2 * i, 5)>>)]

\* the files a step may add: the newest file, with three new words and one
\* known word twice; the oldest file, with three new words and a known one; a
\* file that is no markdown file; a file fsp.stat fails on; a file seven
\* directories down; a file as old as one of the ten, with a short word, a
\* blacklisted word and a known word
AddedFiles ==
    { CorpusFile(21, "MD", 7, COLLECT_NOW,
                 <<Word(21, 4), Word(22, 4), Word(23, 6), Word(1, 4), Word(1, 4)>>),
      CorpusFile(22, "txt", 3, COLLECT_NOW - 20 * DAY_MS,
                 <<Word(24, 4), Word(25, 4), Word(26, 4), Word(2, 5)>>),
      CorpusFile(23, "json", 100, COLLECT_NOW, <<Word(30, 4)>>),
      [CorpusFile(24, "md", 100, COLLECT_NOW, <<Word(31, 4)>>) EXCEPT !.statOk = FALSE],
      [CorpusFile(25, "md", 100, COLLECT_NOW, <<Word(32, 4)>>) EXCEPT !.dirDepth = 7],
      CorpusFile(26, "mdx", 2, TenFiles[1].mtimeMs,
                 <<Word(40, 3), [Word(41, 4) EXCEPT !.blacklisted = TRUE], Word(3, 4)>>) }

\* the memory limits of the calls: below the ten files, above them
MemoryLimits == {1, 11}

MemoryOf(a) == collectMemoryStats(a.corpus, a.memoryLimit)

InitCorpus ==
    /\ FrozenParse /\ FrozenScan /\ FrozenCollect /\ FrozenServer
    /\ fnArgs \in {[corpus |-> c, memoryLimit |-> n, added |-> 0] :
                      c \in {NoCorpus, Corpus(<<>>), Corpus(TenFiles),
                             UnreadableCorpus(<<>>), UnreadableCorpus(TenFiles)},
                      n \in MemoryLimits}
    /\ fnResult = MemoryOf(fnArgs)

\* a file is written below the memory directory, under a path of its own, and
\* the corpus is read again
AddFile ==
    /\ fnArgs.corpus.exists
    /\ fnArgs.added < MaxAdded
    /\ \E f \in AddedFiles :
         fnArgs' = [fnArgs EXCEPT
                       !.corpus.entries = Append(@, [f EXCEPT !.relativePath = 100 + fnArgs.added]),
                       !.added = @ + 1]
    /\ fnResult' = MemoryOf(fnArgs')
    /\ UNCHANGED <<parseVars, scanVars, collectVars, serverVars>>

\* the corpus is read again under another memory limit
Relimit ==
    /\ \E n \in MemoryLimits \ {fnArgs.memoryLimit} :
         fnArgs' = [fnArgs EXCEPT !.memoryLimit = n]
    /\ fnResult' = MemoryOf(fnArgs')
    /\ UNCHANGED <<parseVars, scanVars, collectVars, serverVars>>

NextCorpus == AddFile \/ Relimit

SpecCorpus == InitCorpus /\ [][NextCorpus]_vars

EmptyCorpus(m) ==
    /\ m.fileCount = 0 /\ m.totalBytes = 0
    /\ m.files = <<>> /\ m.keywords = <<>>

\* C21 as claimed: when the memory directory is missing, or exists but cannot
\* be listed, the corpus is reported empty with exists = false: file count 0,
\* total bytes 0, no files, no keywords.
C21_CorpusRootFailure ==
    (~fnArgs.corpus.exists \/ ~fnArgs.corpus.readable)
        => ~fnResult.exists /\ EmptyCorpus(fnResult)

\* the corpus of a directory that is missing or cannot be listed is empty, and
\* exists says whether the directory is there
RootFailureIsEmpty ==
    (~fnArgs.corpus.exists \/ ~fnArgs.corpus.readable)
        => fnResult.exists = fnArgs.corpus.exists /\ EmptyCorpus(fnResult)

\* a directory with files that cannot be listed
UnlistedFiles ==
    /\ fnArgs.corpus.exists /\ ~fnArgs.corpus.readable
    /\ Len(fnArgs.corpus.entries) > 10


\* the files of the directory that the scan reads: listed, at most six
\* directories down, with a markdown extension, and stat'ed
Scanned(corpus) ==
    {i \in 1..Len(corpus.entries) :
        /\ corpus.exists /\ corpus.readable
        /\ corpus.entries[i].dirDepth <= 6
        /\ toLowerCase(corpus.entries[i].ext) \in {"md", "mdx", "txt"}
        /\ corpus.entries[i].statOk}

\* the listed files are scanned files, each once, the newest first, and no
\* scanned file left out is newer than a listed one
MostRecentFirst(corpus, listed) ==
    LET scanned == Scanned(corpus)
        paths == {listed[k].relativePath : k \in 1..Len(listed)}
    IN /\ \A k \in 1..Len(listed) :
              \E i \in scanned :
                  /\ corpus.entries[i].relativePath = listed[k].relativePath
                  /\ corpus.entries[i].mtimeMs = listed[k].mtimeMs
       /\ \A k, l \in 1..Len(listed) :
              /\ k < l => listed[k].mtimeMs >= listed[l].mtimeMs
              /\ k # l => listed[k].relativePath # listed[l].relativePath
       /\ \A i \in scanned :
              corpus.entries[i].relativePath \notin paths
                  => \A k \in 1..Len(listed) : listed[k].mtimeMs >= corpus.entries[i].mtimeMs

\* the number of times a word that passes the tokenizer occurs in the scanned
\* files
Frequency(corpus, word) ==
    LET occurs(i) == {k \in 1..Len(corpus.entries[i].words) :
                         /\ corpus.entries[i].words[k].id = word
                         /\ corpus.entries[i].words[k].length >= 4
                         /\ ~corpus.entries[i].words[k].blacklisted}
        counts == [i \in 1..Len(corpus.entries) |->
                      IF i \in Scanned(corpus) THEN Cardinality(occurs(i)) ELSE 0]
    IN SumSeq(counts)

\* at most 24 keywords, each with its frequency, the most frequent first, and
\* no word left out is more frequent than a listed one
MostFrequentFirst(corpus, keywords) ==
    LET listed == {keywords[k].word : k \in 1..Len(keywords)}
        all == UNION {{corpus.entries[i].words[k].id :
                          k \in 1..Len(corpus.entries[i].words)} :
                      i \in 1..Len(corpus.entries)}
        used == {w \in all : Frequency(corpus, w) > 0}
    IN /\ Len(keywords) = Min(24, Cardinality(used))
       /\ \A k \in 1..Len(keywords) :
              keywords[k].count = Frequency(corpus, keywords[k].word)
       /\ \A k, l \in 1..Len(keywords) :
              /\ k < l => keywords[k].count >= keywords[l].count
              /\ k # l => keywords[k].word # keywords[l].word
       /\ \A w \in used \ listed :
              \A k \in 1..Len(keywords) : keywords[k].count >= Frequency(corpus, w)

\* C22 as claimed: under a positive memory limit N the listed files are at
\* most N, they are the N most recently modified scanned files in descending
\* mtime, and the keywords are at most 24 in descending frequency.
C22_CorpusListingBound ==
    fnArgs.memoryLimit > 0
        => /\ Len(fnResult.files) = Min(fnArgs.memoryLimit, Cardinality(Scanned(fnArgs.corpus)))
           /\ MostRecentFirst(fnArgs.corpus, fnResult.files)
           /\ MostFrequentFirst(fnArgs.corpus, fnResult.keywords)

\* the listing as collectMemoryStats bounds it: the limit counts as 10 when it
\* is below 10
ListingAsFloored ==
    fnArgs.memoryLimit > 0
        => /\ Len(fnResult.files) = Min(Max(10, fnArgs.memoryLimit),
                                        Cardinality(Scanned(fnArgs.corpus)))
           /\ MostRecentFirst(fnArgs.corpus, fnResult.files)
           /\ MostFrequentFirst(fnArgs.corpus, fnResult.keywords)

\* more scanned files than the limit and than 10, more than 24 words
ListingCut ==
    /\ Cardinality(Scanned(fnArgs.corpus)) > 11 /\ fnArgs.memoryLimit = 11
    /\ Len(fnResult.files) = 11
    /\ Len(fnResult.keywords) = 24 /\ fnResult.keywords[1].count = 3
    /\ \E i \in Scanned(fnArgs.corpus) : Frequency(fnArgs.corpus, 26) = 1

---------------------------------------------------------------------------
(* SpecSampling: parseSessionFile reading user and assistant turns, dated  *)
(* in any order or undated, with and without an explicit duration          *)

\* the longest transcript of such turns
MaxRead == 3

\* user turns at the epoch, inside the window, undated and after the range;
\* assistant turns at the window's start, later, undated, with a duration on
\* the record and with one on the message; a tool result with a duration
SampledTurns ==
    { Turn("user", T_EPOCH), Turn("user", T_MID), Turn("user", T_FUTURE),
      [BaseLine EXCEPT !.role = Str("user")],
      Turn("assistant", T_START), Turn("assistant", T_LATE),
      [BaseLine EXCEPT !.role = Str("assistant")],
      [Turn("assistant", T_LATE) EXCEPT !.recDurationMs = Num(50)],
      [BaseLine EXCEPT !.role = Str("assistant"), !.msgDurationMs = Num(7)],
      [Turn("toolResult", T_LATE) EXCEPT !.recDurationMs = Num(9)] }

InitSampling ==
    /\ params \in ParseParams
    /\ consumed = <<>>
    /\ acc = createAcc
    /\ cur = [line |-> BlankLine, loc |-> NoLocals]
    /\ ppc = "reading"
    /\ summary = None
    /\ FrozenScan /\ FrozenCollect /\ FrozenPure /\ FrozenServer

\* the for-await loop takes the next line of the stream, one of the turns
ParseSampled ==
    /\ ppc = "reading"
    /\ Len(consumed) < MaxRead
    /\ \E line \in SampledTurns :
         LET r == ReadLine(acc, line, params.range)
         IN /\ consumed' = Append(consumed, line)
            /\ acc' = r.acc
            /\ cur' = [line |-> line, loc |-> r.loc]
    /\ UNCHANGED <<params, ppc, summary, scanVars, collectVars, pureVars, serverVars>>

NextSampling == ParseSampled \/ ParseEnd

SpecSampling == InitSampling /\ [][NextSampling]_vars

\* the explicit duration of a line: the record's, else the message's
ExplicitDuration(l) ==
    IF l.recDurationMs.k = "num" THEN Some(l.recDurationMs.v)
    ELSE IF l.msgDurationMs.k = "num" THEN Some(l.msgDurationMs.v) ELSE None

\* the dated user turns among the first i folded lines
DatedUsers(folded, i) ==
    {j \in 1..i : folded[j].role = Str("user") /\ LineTimestamp(folded[j]) # None}

LastUserTs(folded, i) == Val(LineTimestamp(folded[Greatest(DatedUsers(folded, i))]))

\* the samples of a transcript; fromEpoch says whether a user turn dated 0
\* starts a measurement
SamplesOf(lines, rng, fromEpoch) ==
    LET folded == FoldedLines(lines, rng)
        measured(i) == /\ LineTimestamp(folded[i]) # None
                       /\ DatedUsers(folded, i) # {}
                       /\ (fromEpoch \/ LastUserTs(folded, i) # 0)
        sample(i) ==
            IF ~IsAssistant(folded[i]) THEN <<>>
            ELSE IF ExplicitDuration(folded[i]) # None
            THEN <<Val(ExplicitDuration(folded[i]))>>
            ELSE IF measured(i)
            THEN <<Max(0, Val(LineTimestamp(folded[i])) - LastUserTs(folded, i))>>
            ELSE <<>>
        flat[i \in 0..Len(folded)] == IF i = 0 THEN <<>> ELSE flat[i - 1] \o sample(i)
    IN flat[Len(folded)]

\* C23 as claimed: each in-range assistant record adds its explicit durationMs
\* as a latency sample when it has one; else, when it is dated and an earlier
\* in-range dated user record exists, max(0, its timestamp - the timestamp of
\* the most recent such user record); else nothing.  Other records add no
\* sample.
C23_LatencySampling ==
    acc.latencyValues = SamplesOf(consumed, params.range, TRUE)

\* the samples as the parser takes them: a user turn dated 0 starts no
\* measurement
SamplesAsTaken ==
    acc.latencyValues = SamplesOf(consumed, params.range, FALSE)

\* a clamped difference and a plain one sampled after one user turn, or a
\* plain difference and an explicit duration
SamplesTaken ==
    \/ acc.latencyValues = <<0, 500>>
    \/ acc.latencyValues = <<500, 50>>

---------------------------------------------------------------------------
(* SpecErrors: parseSessionFile reading records with and without tool      *)
(* results, error flags and stop reasons                                   *)

\* the longest transcript of such records
MaxRecords == 3

ToolResult(isError) == [Block("tool_result") EXCEPT !.is_error = isError]

\* a user turn with a flagged tool result; one with an unflagged tool result;
\* an assistant turn stopped by "Timeout"; one whose message says "stop" and
\* whose record says "error"; an undated record with no role stopped by
\* "cancelled"; an assistant turn with two flagged results, an unflagged one
\* and the stop reason "Aborted"; a toolResult message; an assistant turn
\* stopped by "error" after the range's end; a plain assistant turn
ErrorRecords ==
    { [Turn("user", T_MID) EXCEPT !.content = ArrayContent(<<ToolResult(TRUE)>>)],
      [Turn("user", T_MID) EXCEPT !.content = ArrayContent(<<ToolResult(FALSE)>>)],
      [Turn("assistant", T_LATE) EXCEPT !.msgStopReason = Str("Timeout")],
      [Turn("assistant", T_LATE) EXCEPT
          !.msgStopReason = Str("stop"), !.recStopReason = Str("error")],
      [BaseLine EXCEPT !.recStopReason = Str("cancelled")],
      [Turn("assistant", T_EPOCH) EXCEPT
          !.recStopReason = Str("Aborted"),
          !.content = ArrayContent(<<ToolResult(TRUE), ToolResult(FALSE), ToolResult(TRUE)>>)],
      Turn("toolResult", T_MID),
      [Turn("assistant", T_FUTURE) EXCEPT !.msgStopReason = Str("error")],
      Turn("assistant", T_END) }

InitErrors ==
    /\ params \in ParseParams
    /\ consumed = <<>>
    /\ acc = createAcc
    /\ cur = [line |-> BlankLine, loc |-> NoLocals]
    /\ ppc = "reading"
    /\ summary = None
    /\ FrozenScan /\ FrozenCollect /\ FrozenPure /\ FrozenServer

\* the for-await loop takes the next line of the stream, one of the records
ParseRecord ==
    /\ ppc = "reading"
    /\ Len(consumed) < MaxRecords
    /\ \E line \in ErrorRecords :
         LET r == ReadLine(acc, line, params.range)
         IN /\ consumed' = Append(consumed, line)
            /\ acc' = r.acc
            /\ cur' = [line |-> line, loc |-> r.loc]
    /\ UNCHANGED <<params, ppc, summary, scanVars, collectVars, pureVars, serverVars>>

NextErrors == ParseRecord \/ ParseEnd

SpecErrors == InitErrors /\ [][NextErrors]_vars

\* the stop reason of a line: the message's when it is a string, else the
\* record's
LineStopReason(l) ==
    IF l.msgStopReason.k = "str" THEN l.msgStopReason.s
    ELSE IF l.recStopReason.k = "str" THEN l.recStopReason.s ELSE ""

\* a tool-result block of the line carries an error flag, or its stop reason
\* is one of error, aborted, cancelled, timeout in any case
Detected(l) ==
    \/ /\ l.content.k = "array"
       /\ \E i \in 1..Len(l.content.blocks) :
              l.content.blocks[i].type = "tool_result" /\ l.content.blocks[i].is_error
    \/ LineStopReason(l) \in {"error", "aborted", "cancelled", "timeout",
                              "ERROR", "Aborted", "Timeout"}

\* the error count of the bucket of a day, 0 when the day has none
DayErrors(a, day) == IF MapHas(a.dailyMap, day) THEN MapGet(a.dailyMap, day).errors ELSE 0

DaysOf(a) == {a.dailyMap[i].key : i \in 1..Len(a.dailyMap)}

\* C24: a record that is read is detected as an error exactly when one of its
\* tool-result blocks carries an error flag or its stop reason is, in any
\* case, one of error, aborted, cancelled, timeout; a record not so detected
\* increases neither the session's error count nor a day bucket's, and its
\* timeline event has isError = false.
C24_ErrorDetection ==
    [][consumed' # consumed =>
         LET line == cur'.line
             folded == IsRecordLine(line) /\ LineInRange(line, params.range)
         IN /\ folded => (cur'.loc.entryIsError <=> Detected(line))
            /\ folded /\ Len(acc'.timeline) > Len(acc.timeline)
                 => acc'.timeline[Len(acc'.timeline)].isError = Detected(line)
            /\ ~Detected(line)
                 => /\ acc'.messageCounts.errors = acc.messageCounts.errors
                    /\ \A day \in DaysOf(acc) \cup DaysOf(acc') :
                           DayErrors(acc', day) = DayErrors(acc, day)]_vars

\* a record detected by its stop reason alone, written in mixed case, was
\* counted, and the undetected record read after it was not
C24_Witness ==
    /\ Len(consumed) = 2
    /\ consumed[1].msgStopReason = Str("Timeout")
    /\ consumed[2].msgStopReason = Str("stop") /\ consumed[2].recStopReason = Str("error")
    /\ acc.messageCounts.errors = 1
    /\ Len(acc.timeline) = 2
    /\ acc.timeline[1].isError /\ ~acc.timeline[2].isError
    /\ DayErrors(acc, dayKeyFromMs(T_LATE)) = 1


---------------------------------------------------------------------------
(* The observatory server (server.mjs): the /api/collect handler and the   *)
(* payload cache of createCollectorCache.  A get call whose key has no     *)
(* fresh entry awaits collectOpenClawMetrics; while it is suspended other  *)
(* requests are served, and the collections finish in any order.  A        *)
(* payload is identified by the options and the clock reading of the       *)
(* collection that produced it.                                            *)

\* the cache TTL of the model (--cache-ms), in clock ticks
TtlMs == 2
\* the last instant of the model's clock
LastTick == 3
\* the most get calls suspended at once
MaxInFlight == 2

\* the query strings of the requests: days= (empty), days=30, and
\* days=all&agent=main
Query(days, agent) == [days |-> days, agent |-> agent]
Queries ==
    { Query(Str(""), NoStr), Query(Str("30"), NoStr), Query(Str("all"), Str("main")) }

\* the options the handler builds from a query (server.mjs lines 129-138);
\* the fixed directories are undefined and the limits are not in the query
optionsOf(query) ==
    [days |-> IF query.days.k = "str" /\ query.days.s # "" THEN query.days.s ELSE "30",
     agent |-> IF query.agent.k = "str" /\ query.agent.s # "" THEN Some(query.agent.s)
               ELSE None,
     sessionLimit |-> 250, memoryLimit |-> 100, timelineLimit |-> 240]

\* the decimal text of the model's limits
decimalText(n) ==
    CASE n = 250 -> "250" [] n = 100 -> "100" [] n = 240 -> "240" [] OTHER -> "0"

\* JSON.stringify(options): the defined properties in insertion order, each
\* with the text of its value
stringify(options) ==
    <<<<"days", options.days>>>>
    \o (IF IsSome(options.agent) THEN <<<<"agent", Val(options.agent)>>>> ELSE <<>>)
    \o <<<<"sessionLimit", decimalText(options.sessionLimit)>>,
         <<"memoryLimit", decimalText(options.memoryLimit)>>,
         <<"timelineLimit", decimalText(options.timelineLimit)>>>>

\* a mutant of isFresh: an entry exactly ttlMs old is still served
isFreshInclusive(current, now, ttlMs) == IsSome(current) /\ now - Val(current).createdAt <= ttlMs

\* current && now - current.createdAt < ttlMs
isFresh(current, now, ttlMs) == IsSome(current) /\ now - Val(current).createdAt < ttlMs

\* cache.get(key)
stored(map, key) == IF MapHas(map, key) THEN Some(MapGet(map, key).value) ELSE None

\* the smallest identifier no suspended call has
FreeId == Least({i \in 1..MaxInFlight + 1 : \A r \in inflight : r.id # i})

InitCache ==
    /\ FrozenParse /\ FrozenScan /\ FrozenPure
    /\ clock = 0 /\ last = NoCall
    /\ cache = <<>> /\ inflight = {} /\ reply = NoCall

\* a request calls cache.get(options): a fresh entry is returned at once,
\* else the call starts a collection and is suspended
Get ==
    /\ \E query \in Queries :
         LET options == optionsOf(query)
             key == stringify(options)
             now == clock
             current == stored(cache, key)
         IN IF isFresh(current, now, TtlMs)
            THEN /\ reply' = [k |-> "hit", key |-> key, now |-> now,
                              payload |-> Val(current).payload]
                 /\ UNCHANGED inflight
            ELSE /\ Cardinality(inflight) < MaxInFlight
                 /\ inflight' = inflight \cup
                        {[id |-> FreeId, options |-> options, key |-> key, now |-> now]}
                 /\ reply' = [k |-> "miss", key |-> key, now |-> now,
                              payload |-> [options |-> options, endMs |-> now]]
    /\ UNCHANGED <<cache, clock, last, parseVars, scanVars, pureVars>>

\* the collection of a suspended call resolves: its payload is stored under
\* the call's key with the call's own reading of the clock, and returned
Resolve ==
    /\ \E r \in inflight :
         LET payload == [options |-> r.options, endMs |-> r.now]
         IN /\ cache' = MapSet(cache, [key |-> r.key,
                                       value |-> [createdAt |-> r.now, payload |-> payload]])
            /\ inflight' = inflight \ {r}
            /\ reply' = [k |-> "fresh", key |-> r.key, now |-> r.now, payload |-> payload]
    /\ UNCHANGED <<clock, last, parseVars, scanVars, pureVars>>

\* the collection of a suspended call rejects: the handler answers 500 and
\* nothing is stored
Reject ==
    /\ \E r \in inflight :
         /\ inflight' = inflight \ {r}
         /\ reply' = [k |-> "failed", key |-> r.key, now |-> r.now,
                      payload |-> [options |-> r.options, endMs |-> r.now]]
    /\ UNCHANGED <<cache, clock, last, parseVars, scanVars, pureVars>>

\* a millisecond passes
TickCache ==
    /\ clock < LastTick
    /\ clock' = clock + 1
    /\ UNCHANGED <<last, serverVars, parseVars, scanVars, pureVars>>

NextCache == Get \/ Resolve \/ Reject \/ TickCache

SpecCache == InitCache /\ [][NextCache]_vars

\* the key of an option set, stated apart from stringify: the days and the
\* agent of the options
SameOptions(key, options) ==
    /\ key[1] = <<"days", options.days>>
    /\ (key[2][1] = "agent") = IsSome(options.agent)
    /\ IsSome(options.agent) => key[2][2] = Val(options.agent)

\* an entry is stored under the key, made by a request that started fewer
\* than TtlMs ticks ago
FreshlyStored(map, key, now) ==
    \E i \in 1..Len(map) : map[i].key = key /\ now - map[i].value.payload.endMs < TtlMs

\* C25: a get call returns a stored payload only when it was stored under the
\* call's serialized options and fewer than ttl milliseconds have passed
\* since the start of the request that produced it; in every other case it
\* runs a collection and stores the result under that key; a payload is never
\* returned for other options than those it was collected for.
C25_CacheTtl ==
    [][reply' # reply =>
         /\ reply'.k = "hit" =>
               /\ FreshlyStored(cache, reply'.key, clock)
               /\ stored(cache, reply'.key) = Some([createdAt |-> reply'.payload.endMs,
                                                    payload |-> reply'.payload])
         /\ reply'.k = "miss" =>
               /\ ~FreshlyStored(cache, reply'.key, clock)
               /\ \E r \in inflight' \ inflight : r.key = reply'.key /\ r.now = clock
         /\ reply'.k = "fresh" =>
               /\ stored(cache', reply'.key) = Some([createdAt |-> reply'.now,
                                                     payload |-> reply'.payload])
               /\ reply'.payload.endMs = reply'.now
         /\ SameOptions(reply'.key, reply'.payload.options)]_vars

\* a payload one tick short of the TTL is served for days=30 or for the empty
\* days, while the payload of the other option set is stored too
C25_Witness ==
    /\ reply.k = "hit"
    /\ reply.now - reply.payload.endMs = TtlMs - 1
    /\ reply.payload.options.days = "30"
    /\ Len(cache) = 2


\* C28 as claimed: whatever the interleaving of overlapping get calls with
\* the same options, the entry stored for a key is never replaced by the
\* result of a collection that started earlier: the createdAt stored for a
\* key never decreases.
C28_CreatedAtNeverDecreases ==
    [][\A i \in 1..Len(cache) :
           /\ MapHas(cache', cache[i].key)
           /\ MapGet(cache', cache[i].key).value.createdAt >= cache[i].value.createdAt]_vars

\* an entry is replaced only when a suspended call resolves, and then by that
\* call's own payload and clock reading, older or not
ReplacedByResolvingCall ==
    [][\A i \in 1..Len(cache) :
           /\ MapHas(cache', cache[i].key)
           /\ MapGet(cache', cache[i].key) # cache[i]
                => \E r \in inflight \ inflight' :
                       /\ r.key = cache[i].key
                       /\ MapGet(cache', r.key).value.createdAt = r.now]_vars


\* the spans of a transcript: one per in-range dated assistant record that
\* follows an in-range dated user record, from the earlier of the two
\* timestamps to the assistant's
SpansOf(lines, rng) ==
    LET folded == FoldedLines(lines, rng)
        spanOf(i) ==
            IF IsAssistant(folded[i]) /\ LineTimestamp(folded[i]) # None
               /\ DatedUsers(folded, i) # {}
            THEN LET ts == Val(LineTimestamp(folded[i]))
                     user == LastUserTs(folded, i)
                 IN <<[startTs |-> IF user < ts THEN user ELSE ts, endTs |-> ts,
                       latencyMs |-> IF user < ts THEN ts - user ELSE 0]>>
            ELSE <<>>
        flat[i \in 0..Len(folded)] == IF i = 0 THEN <<>> ELSE flat[i - 1] \o spanOf(i)
    IN flat[Len(folded)]

WellFormed(span) ==
    /\ span.startTs <= span.endTs
    /\ span.latencyMs = span.endTs - span.startTs
    /\ span.latencyMs >= 0

\* C26: whatever the order of the user and assistant timestamps, every span
\* of the waterfall has startTs <= endTs and latencyMs = endTs - startTs >= 0,
\* in the parser's list and in the summary's; a span is emitted only for a
\* dated assistant record that follows an in-range dated user record.
C26_WaterfallSpans ==
    /\ \A i \in 1..Len(acc.waterfall) : WellFormed(acc.waterfall[i])
    /\ [i \in 1..Len(acc.waterfall) |->
           [startTs |-> acc.waterfall[i].startTs, endTs |-> acc.waterfall[i].endTs,
            latencyMs |-> acc.waterfall[i].latencyMs]]
         = SpansOf(consumed, params.range)
    /\ IsSome(summary) =>
           \A i \in 1..Len(Val(summary).waterfall) : WellFormed(Val(summary).waterfall[i])

\* after a user turn, an assistant turn dated before it and one dated after
\* it: a span of no length and a span of 500 ms, both in the summary
C26_Witness ==
    /\ IsSome(summary)
    /\ Len(Val(summary).waterfall) = 2
    /\ Val(summary).waterfall[1].startTs = T_START
    /\ Val(summary).waterfall[1].endTs = T_START
    /\ Val(summary).waterfall[1].latencyMs = 0
    /\ Val(summary).waterfall[2].startTs = T_MID
    /\ Val(summary).waterfall[2].latencyMs = T_LATE - T_MID


---------------------------------------------------------------------------
(* limitHistoryTurns (the agent's history limiter): SpecHistory applies it *)
(* to a conversation that grows by one message per step, under a limit     *)
(* that changes between calls.  A message is its role and its position in  *)
(* the conversation.                                                       *)

\* the longest conversation
MaxMessages == 5

HistoryRoles == {"user", "assistant", "toolResult"}

\* the limits of the calls: undefined, negative, zero, one to three
HistoryLimits == {None, Some(-1), Some(0), Some(1), Some(2), Some(3)}

\* a mutant of overLimit: the scan stops at the limit-th user message
atLimit(userCount, limit) == userCount >= limit

\* userCount > limit
overLimit(userCount, limit) == userCount > limit

\* the for loop of limitHistoryTurns, from index i down; indices count from 1,
\* so messages.length is Len(messages) + 1 and slice(k) is SubSeq from k
RECURSIVE scanHistory(_, _, _, _, _)
scanHistory(messages, limit, i, userCount, lastUserIndex) ==
    IF i < 1 THEN messages
    ELSE IF messages[i].role = "user"
    THEN IF overLimit(userCount + 1, limit)
         THEN SubSeq(messages, lastUserIndex, Len(messages))
         ELSE scanHistory(messages, limit, i - 1, userCount + 1, i)
    ELSE scanHistory(messages, limit, i - 1, userCount, lastUserIndex)

\* limitHistoryTurns(messages, limit)
limitHistoryTurns(messages, limit) ==
    IF ~IsSome(limit) \/ Val(limit) = 0 \/ Val(limit) <= 0 \/ Len(messages) = 0
    THEN messages
    ELSE scanHistory(messages, Val(limit), Len(messages), 0, Len(messages) + 1)

InitHistory ==
    /\ FrozenParse /\ FrozenScan /\ FrozenCollect /\ FrozenServer
    /\ fnArgs \in {[messages |-> <<>>, limit |-> l] : l \in HistoryLimits}
    /\ fnResult = limitHistoryTurns(fnArgs.messages, fnArgs.limit)

\* the conversation gains a message, and the history is limited again
AppendMessage ==
    /\ Len(fnArgs.messages) < MaxMessages
    /\ \E role \in HistoryRoles :
         fnArgs' = [fnArgs EXCEPT
                       !.messages = Append(@, [role |-> role,
                                               at |-> Len(fnArgs.messages) + 1])]
    /\ fnResult' = limitHistoryTurns(fnArgs'.messages, fnArgs'.limit)
    /\ UNCHANGED <<parseVars, scanVars, collectVars, serverVars>>

\* the history is limited again under another limit
ChangeLimit ==
    /\ \E l \in HistoryLimits \ {fnArgs.limit} : fnArgs' = [fnArgs EXCEPT !.limit = l]
    /\ fnResult' = limitHistoryTurns(fnArgs'.messages, fnArgs'.limit)
    /\ UNCHANGED <<parseVars, scanVars, collectVars, serverVars>>

NextHistory == AppendMessage \/ ChangeLimit

SpecHistory == InitHistory /\ [][NextHistory]_vars

UsersOf(s) == {i \in 1..Len(s) : s[i].role = "user"}

\* C27: under a limit > 0 the result is a suffix of the conversation holding
\* exactly min(limit, number of user messages) user messages; with more than
\* limit user messages it starts at the limit-th user message from the end;
\* under an undefined or non-positive limit, or for an empty conversation,
\* the result is the conversation.
C27_LimitHistoryTurns ==
    LET messages == fnArgs.messages
        limit == fnArgs.limit
        users == UsersOf(messages)
        n == Len(messages)
    IN IF ~IsSome(limit) \/ Val(limit) <= 0 \/ n = 0
       THEN fnResult = messages
       ELSE /\ \E k \in 1..n + 1 : fnResult = SubSeq(messages, k, n)
            /\ Cardinality(UsersOf(fnResult)) = Min(Val(limit), Cardinality(users))
            /\ Cardinality(users) > Val(limit)
                 => /\ fnResult[1].role = "user"
                    /\ Cardinality({i \in users : i >= fnResult[1].at}) = Val(limit)
            /\ Cardinality(users) <= Val(limit) => fnResult = messages

\* three user turns under a limit of 2: the history starts at the second
\* user message from the end and drops what is before it
C27_Witness ==
    /\ fnArgs.limit = Some(2)
    /\ Cardinality(UsersOf(fnArgs.messages)) = 3
    /\ Len(fnArgs.messages) = 5
    /\ Len(fnResult) = 3
    /\ fnResult[1].role = "user" /\ fnResult[1].at = 3
    /\ fnResult[2].role = "assistant"

---------------------------------------------------------------------------
(* The fleet's breakdowns: aggregateSessions over lists of parsed sessions *)

\* the longest list of sessions aggregated
MaxSessions == 3

\* a turn with usage and neither a cost nor a provider nor a model
Unpriced ==
    [Turn("assistant", COLLECT_NOW - 500) EXCEPT
        !.msgUsage = [UsageObj EXCEPT !.input = Num(6)]]

\* the transcripts of the aggregated sessions: models A and B of provider p1
\* on the channel web; model B of p2 and model A of p1 with no channel; an
\* unpriced turn and model A of p2 on the channel cli; no usage at all
FleetTranscripts ==
    { [Transcripts.web EXCEPT !.lines = <<AtWindowEdge, AfterNow>>],
      Transcripts.old,
      [Transcripts.cli EXCEPT !.lines = <<Unpriced, Undated>>],
      [Transcripts.chat EXCEPT !.lines = <<UserBefore>>] }

FleetAgents == {"main", "ops"}

\* every record of the transcripts is in range
FleetRange == [startMs |-> None, endMs |-> COLLECT_NOW + 1]

\* the n-th session of a list: its file is named after its place
FleetIds == <<"s1", "s2", "s3", "s4", "s5">>
FleetSession(agentId, n, t) ==
    parseSessionFile(TranscriptFile(agentId, FleetIds[n], t, "none"), FleetRange, 2)

\* the filters of a call: none, an agent, a channel
FleetFilters ==
    { [agent |-> None, channel |-> None],
      [agent |-> Some("main"), channel |-> None],
      [agent |-> None, channel |-> Some("web")] }

AggregateOf(a) == aggregateSessions(a.sessions, a.filter)

InitAggregate ==
    /\ FrozenParse /\ FrozenScan /\ FrozenCollect /\ FrozenServer
    /\ fnArgs \in {[sessions |-> <<>>, filter |-> f] : f \in FleetFilters}
    /\ fnResult = AggregateOf(fnArgs)

\* the scan found one more session, and the list is aggregated again
AddSession ==
    /\ Len(fnArgs.sessions) < MaxSessions
    /\ \E agentId \in FleetAgents, t \in FleetTranscripts :
         fnArgs' = [fnArgs EXCEPT
                       !.sessions = Append(@, FleetSession(agentId, Len(@) + 1, t))]
    /\ fnResult' = AggregateOf(fnArgs')
    /\ UNCHANGED <<parseVars, scanVars, collectVars, serverVars>>

\* the same list is aggregated under another filter
ChangeFilter ==
    /\ \E f \in FleetFilters \ {fnArgs.filter} : fnArgs' = [fnArgs EXCEPT !.filter = f]
    /\ fnResult' = AggregateOf(fnArgs')
    /\ UNCHANGED <<parseVars, scanVars, collectVars, serverVars>>

NextAggregate == AddSession \/ ChangeFilter

SpecAggregate == InitAggregate /\ [][NextAggregate]_vars

\* the sum of one column of a table's rows
ColumnSum(rows, Field(_)) == SumSeq([i \in 1..Len(rows) |-> Field(rows[i])])

RowSessions(row) == row.sessions
RowTokens(row) == row.totals.totalTokens
RowCost(row) == row.totals.totalCost
RowMissing(row) == row.totals.missingCostEntries

\* the rows of a table filed under a key
RowsUnder(rows, key) == {r \in 1..Len(rows) : rows[r].key = key}

\* a table's rows count every in-scope session once, under the session's key,
\* and their tokens, cost and missing-cost entries add up to the fleet's
Conserves(rows, KeyOf(_)) ==
    LET inScope == fnResult.filtered
        totals == fnResult.totals
    IN /\ \A i \in 1..Len(inScope) : Cardinality(RowsUnder(rows, KeyOf(inScope[i]))) = 1
       /\ \A r \in 1..Len(rows) :
            rows[r].sessions =
                Cardinality({i \in 1..Len(inScope) : KeyOf(inScope[i]) = rows[r].key})
       /\ ColumnSum(rows, RowSessions) = Len(inScope)
       /\ ColumnSum(rows, RowTokens) = totals.totalTokens
       /\ ColumnSum(rows, RowCost) = totals.totalCost
       /\ ColumnSum(rows, RowMissing) = totals.missingCostEntries

AgentKey(session) == session.agentId
ChannelKey(session) == OrUnknown(session.channel)

\* C29: for every list of in-scope sessions, each session is counted in
\* exactly one row by agent and exactly one row by channel, so in both tables
\* the rows' sessions add up to the number of in-scope sessions and their
\* totalTokens, totalCost and missingCostEntries add up to the fleet totals;
\* the totalTokens and totalCost of the rows by model add up to the fleet
\* totals too.
C29_BreakdownsConserve ==
    /\ Conserves(fnResult.aggregates.byAgent, AgentKey)
    /\ Conserves(fnResult.aggregates.byChannel, ChannelKey)
    /\ ColumnSum(fnResult.aggregates.byModel, RowTokens) = fnResult.totals.totalTokens
    /\ ColumnSum(fnResult.aggregates.byModel, RowCost) = fnResult.totals.totalCost

\* of three sessions the filter keeps the two of one agent, on two channels,
\* one of them with no channel, with tokens, a cost and an unpriced turn
C29_Witness ==
    /\ Len(fnArgs.sessions) = 3 /\ Len(fnResult.filtered) = 2
    /\ Len(fnResult.aggregates.byAgent) = 1
    /\ Len(fnResult.aggregates.byChannel) = 2
    /\ RowsUnder(fnResult.aggregates.byChannel, "unknown") # {}
    /\ Len(fnResult.aggregates.byModel) >= 3
    /\ fnResult.totals.totalTokens > 0 /\ fnResult.totals.totalCost > 0
    /\ fnResult.totals.missingCostEntries > 0


\* the in-scope sessions that used a model, and that used a provider
UsedModel(session, key) ==
    \E m \in 1..Len(session.modelUsage) :
        modelKeyOf(session.modelUsage[m].provider, session.modelUsage[m].model) = key

UsedProvider(session, key) ==
    \E m \in 1..Len(session.modelUsage) : OrUnknown(session.modelUsage[m].provider) = key

SessionsUsing(Used(_, _), key) ==
    Cardinality({i \in 1..Len(fnResult.filtered) : Used(fnResult.filtered[i], key)})

\* the models of a provider a session used
ModelsOf(session, key) ==
    Cardinality({m \in 1..Len(session.modelUsage) :
                    OrUnknown(session.modelUsage[m].provider) = key})

\* C30 as claimed: the sessions field of every row by model and of every row
\* by provider is the number of distinct in-scope sessions that used that
\* model, respectively that provider, and so never exceeds the number of
\* in-scope sessions, also when one session used several models of the same
\* provider.
C30_SessionCounts ==
    LET byModel == fnResult.aggregates.byModel
        byProvider == fnResult.aggregates.byProvider
    IN /\ \A r \in 1..Len(byModel) :
            /\ byModel[r].sessions = SessionsUsing(UsedModel, byModel[r].key)
            /\ byModel[r].sessions <= Len(fnResult.filtered)
       /\ \A r \in 1..Len(byProvider) :
            /\ byProvider[r].sessions = SessionsUsing(UsedProvider, byProvider[r].key)
            /\ byProvider[r].sessions <= Len(fnResult.filtered)

\* the counts as the code keeps them: a row by model counts the sessions that
\* used the model, a row by provider counts the (session, model) pairs of the
\* provider
SessionCountsAsKept ==
    LET byModel == fnResult.aggregates.byModel
        byProvider == fnResult.aggregates.byProvider
        inScope == fnResult.filtered
    IN /\ \A r \in 1..Len(byModel) :
            byModel[r].sessions = SessionsUsing(UsedModel, byModel[r].key)
       /\ \A r \in 1..Len(byProvider) :
            byProvider[r].sessions =
                SumSeq([i \in 1..Len(inScope) |-> ModelsOf(inScope[i], byProvider[r].key)])

\* one session in scope, and a row by provider that counts two
ProviderCountedTwice ==
    /\ Len(fnResult.filtered) = 1
    /\ \E r \in 1..Len(fnResult.aggregates.byProvider) :
         fnResult.aggregates.byProvider[r].sessions = 2

===========================================================================
